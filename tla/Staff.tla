-------------------------------- MODULE Staff --------------------------------
(***************************************************************************)
(* The users of an organization, their roles, and one of its teams with    *)
(* the rotation that hands its members conversations.                      *)
(*                                                                         *)
(* An administrator's request reads the rows it needs, checks them and     *)
(* writes the columns it changes when its transaction commits, so other    *)
(* requests may commit in between.  What a request reads it reads in one   *)
(* step.  Names, e-mail addresses and passwords are left out; a row of     *)
(* People stands for one address.                                          *)
(***************************************************************************)
EXTENDS Naturals

CONSTANTS
    People,        \* user ids, in the order the rotation sorts them
    Founders,      \* the role of each user there is in the beginning
    Crew,          \* those of them who are on the team
    Requests,      \* administrators' requests under way at once
    Offered,       \* the roles requests ask for
    MaxRequests,   \* how many requests there are in all
    Absent, Same, None   \* no user row; a column left alone; no request

(* ROLE_RANK, and of ROLE_PERMISSIONS those the requests here ask for. *)
Rank == [OWNER |-> 3, ADMIN |-> 3, MANAGER |-> 2, AGENT |-> 1, READ_ONLY |-> 1]
Roles == DOMAIN Rank
Permissions == [OWNER     |-> {"users.write", "teams.write", "ai.write"},
                ADMIN     |-> {"users.write", "teams.write", "ai.write"},
                MANAGER   |-> {"users.write", "teams.write", "ai.write"},
                AGENT     |-> {"ai.write"},
                READ_ONLY |-> {}]

ASSUME PeopleAssumption == People \subseteq Nat \ {0}
ASSUME FoundersAssumption ==
    /\ DOMAIN Founders \subseteq People
    /\ \A p \in DOMAIN Founders : Founders[p] \in Roles
    /\ \E p \in DOMAIN Founders : Founders[p] = "OWNER"
    /\ Crew \subseteq DOMAIN Founders
ASSUME OfferedAssumption == Offered \subseteq Roles /\ {Absent, Same} \cap Roles = {}

VARIABLES
    role,      \* users.role_id, or Absent
    active,    \* users.is_active
    online,    \* agent_availability.status = ONLINE
    team,      \* the team's row exists
    members,   \* team_members
    work,      \* a conversation or ticket is assigned to the team
    last,      \* teams.last_assigned_user_id
    request,   \* what each request has decided to write
    made,      \* requests so far
    ahead,     \* the rotation's memory of who had a turn, see Rotation
    overlap    \* two changes of users have been under way at once

userRows == <<role, active>>
teamRows == <<team, members, work, last, ahead>>
vars == <<userRows, online, teamRows, request, made, overlap>>

(* RoutingService's pool: members who are ONLINE, deactivated ones included. *)
Pool == members \cap online

Rotation == INSTANCE Rotation WITH Agents <- People, pool <- Pool

Init ==
    /\ role = [p \in People |-> IF p \in DOMAIN Founders THEN Founders[p] ELSE Absent]
    /\ active = DOMAIN Founders
    /\ online = {}
    /\ team = TRUE /\ members = Crew /\ work = FALSE /\ last = 0 /\ ahead = {}
    /\ request = [r \in Requests |-> None]
    /\ made = 0
    /\ overlap = FALSE

-----------------------------------------------------------------------------
(* Guards *)

(* get_current_user and require_permission: the row is read at each request, *)
(* so a token of a deactivated user is worth nothing.                        *)
Authorized(a, permission) == a \in active /\ permission \in Permissions[role[a]]

(* can_manage_user and can_assign_role *)
Outranks(a, r) == Rank[role[a]] >= Rank[r]

(* _ensure_not_last_owner.  A definition named X_Fault is X with one          *)
(* plausible bug, which no action uses.                                      *)
AnotherOwner_OrInactive(p) == \E q \in People \ {p} : role[q] = "OWNER"
AnotherOwner(p) == \E q \in active \ {p} : role[q] = "OWNER"

-----------------------------------------------------------------------------
(* Users: what a request decides and what it writes *)

Begin(r, change) ==
    /\ request[r] = None /\ made < MaxRequests
    /\ made' = made + 1
    /\ request' = [request EXCEPT ![r] = change]

ChangesUser(q) == request[q] # None /\ request[q].op \in {"create", "update"}

Overlaps == overlap' = (overlap \/ \E q \in Requests : ChangesUser(q))

(* create_user: the address is free and the role not above the actor's. *)
CreateUser(r, a, p, new, on) ==
    /\ Begin(r, [op |-> "create", who |-> p, role |-> new, on |-> on])
    /\ Authorized(a, "users.write") /\ Outranks(a, new)
    /\ role[p] = Absent
    /\ Overlaps
    /\ UNCHANGED <<userRows, online, teamRows>>

(* update_user: new and on are what the request asks for, Same if nothing.   *)
(* The role before the change decides whether an owner goes; only columns    *)
(* that differ from what was loaded are written.                             *)
UpdateUser(r, a, p, new, on) ==
    LET moves  == new \notin {Same, role[p]}
        turns  == on # Same /\ on # (p \in active)
    IN  /\ Begin(r, [op |-> "update", who |-> p, role |-> IF moves THEN new ELSE Same,
                     on |-> IF turns THEN on ELSE Same])
        /\ Authorized(a, "users.write")
        /\ role[p] # Absent /\ Outranks(a, role[p])
        /\ moves => Outranks(a, new)
        /\ turns /\ ~on => p # a
        /\ role[p] = "OWNER" /\ (moves \/ (turns /\ ~on)) => AnotherOwner(p)
        /\ moves \/ turns
        /\ Overlaps
        /\ UNCHANGED <<userRows, online, teamRows>>

(* The commit.  A second row for an address violates its unique key.         *)
WriteUser(r) ==
    LET c == request[r]
        fails == c.op = "create" /\ role[c.who] # Absent
    IN  /\ ChangesUser(r)
        /\ role' = IF fails \/ c.role = Same THEN role ELSE [role EXCEPT ![c.who] = c.role]
        /\ active' = CASE fails \/ c.on = Same -> active
                       [] OTHER -> IF c.on THEN active \cup {c.who} ELSE active \ {c.who}
        /\ request' = [request EXCEPT ![r] = None]
        /\ UNCHANGED <<online, teamRows, made, overlap>>

-----------------------------------------------------------------------------
(* The team *)

BeginTeam(r, a, change) ==
    /\ Begin(r, change)
    /\ Authorized(a, "teams.write") /\ team
    /\ UNCHANGED <<userRows, online, teamRows, overlap>>

AddMember(r, a, p) ==
    /\ BeginTeam(r, a, [op |-> "add", who |-> p])
    /\ p \in active \ members

(* A pointer to the member, as loaded now, will be forgotten. *)
RemoveMember(r, a, p) ==
    /\ BeginTeam(r, a, [op |-> "remove", who |-> p, forget |-> last = p])
    /\ p \in members

DeleteTeam(r, a) ==
    /\ ~work
    /\ BeginTeam(r, a, [op |-> "delete"])

(* What the database's keys demand of a commit: the team is still there, no  *)
(* membership twice, no team deleted that conversations or tickets refer to. *)
Fits_NoForeignKey(c) == c.op = "add" => c.who \notin members
Fits(c) == /\ team
           /\ c.op = "add" => c.who \notin members
           /\ c.op = "delete" => ~work

WriteTeam(r) ==
    /\ request[r] # None /\ ~ChangesUser(r)
    /\ LET c == request[r]
       IN  /\ Fits(c)
           /\ members' = CASE c.op = "add"    -> members \cup {c.who}
                           [] c.op = "remove" -> members \ {c.who}
                           [] c.op = "delete" -> {}
           /\ last' = IF c.op = "remove" /\ c.forget THEN 0 ELSE last
           /\ team' = (c.op # "delete")
    /\ ahead' = {}
    /\ request' = [request EXCEPT ![r] = None]
    /\ UNCHANGED <<userRows, online, work, made, overlap>>

WriteTeamFails(r) ==
    /\ request[r] # None /\ ~ChangesUser(r)
    /\ ~Fits(request[r])
    /\ request' = [request EXCEPT ![r] = None]
    /\ UNCHANGED <<userRows, online, teamRows, made, overlap>>

(* set_status, by the user himself: the only way in and out of ONLINE. *)
SetStatus(p, on) ==
    /\ Authorized(p, "ai.write")
    /\ online' = IF on THEN online \cup {p} ELSE online \ {p}
    /\ online' # online
    /\ ahead' = IF p \in members THEN {} ELSE ahead
    /\ UNCHANGED <<userRows, team, members, work, last, request, made, overlap>>

(* Assignment gives the team work, and the rotation an agent to it.  *)
Assign(b) ==
    /\ team /\ Rotation!IsNext(Pool, last, b)
    /\ work' = TRUE /\ last' = b /\ ahead' = Rotation!AheadAfter(b)
    /\ UNCHANGED <<userRows, online, team, members, request, made, overlap>>

(* The last conversation or ticket is transferred to another team. *)
TransferAway ==
    /\ work
    /\ work' = FALSE
    /\ UNCHANGED <<userRows, online, team, members, last, ahead, request, made, overlap>>

-----------------------------------------------------------------------------
Next ==
    \/ TransferAway
    \/ \E p \in People : Assign(p) \/ \E on \in BOOLEAN : SetStatus(p, on)
    \/ \E r \in Requests :
        \/ WriteUser(r) \/ WriteTeam(r) \/ WriteTeamFails(r)
        \/ \E a \in active :
            \/ DeleteTeam(r, a)
            \/ \E p \in People :
                \/ AddMember(r, a, p) \/ RemoveMember(r, a, p)
                \/ \E new \in Offered, on \in BOOLEAN : CreateUser(r, a, p, new, on)
                \/ \E new \in Offered \cup {Same}, on \in BOOLEAN \cup {Same} :
                       UpdateUser(r, a, p, new, on)

Spec == Init /\ [][Next]_vars

-----------------------------------------------------------------------------
(* Properties *)

TypeOK ==
    /\ role \in [People -> Roles \cup {Absent}]
    /\ active \subseteq {p \in People : role[p] # Absent}
    /\ online \subseteq {p \in People : role[p] # Absent}
    /\ members \subseteq {p \in People : role[p] # Absent}
    /\ team \in BOOLEAN /\ work \in BOOLEAN /\ overlap \in BOOLEAN
    /\ (work \/ members # {}) => team
    /\ last \in {0} \cup {p \in People : role[p] # Absent}
    /\ ahead \subseteq Pool \X People

(* As long as no two changes of users overlap the organization keeps an      *)
(* active owner: whatever sequence of promotions, demotions and              *)
(* deactivations administrators of any rank ask for, somebody can undo it.   *)
(* Two at once may each see the other's owner and leave none.                *)
OwnerRemains == ~overlap => \E p \in active : role[p] = "OWNER"

(* What the rotation promises survives the administration of users and team: *)
(* between two changes of the team's membership or of its members' presence  *)
(* nobody has a second turn while another waits for his first.               *)
NobodyOvertaken == Rotation!NobodyOvertaken
=============================================================================
