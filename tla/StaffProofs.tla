----------------------------- MODULE StaffProofs -----------------------------
(***************************************************************************)
(* Users and their team stay well-typed, an owner remains, and the         *)
(* rotation survives the administration of its staff, for any organization *)
(* and any number of requests.                                             *)
(***************************************************************************)
EXTENDS Staff, TLAPS

Exist == {p \in People : role[p] # Absent}

UserChanges == [op : {"create"}, who : People, role : Offered, on : BOOLEAN]
               \cup [op : {"update"}, who : People,
                     role : Offered \cup {Same}, on : BOOLEAN \cup {Same}]
TeamChanges == [op : {"add"}, who : People]
               \cup [op : {"remove"}, who : People, forget : BOOLEAN]
               \cup [op : {"delete"}]
RequestsTyped == request \in [Requests -> UserChanges \cup TeamChanges \cup {None}]

(* Who is changed or joins has a row; no request deletes one.                *)
Grounded == \A r \in Requests :
                request[r] # None /\ request[r].op \in {"update", "add"}
                => request[r].who \in Exist

TypeInv == TypeOK /\ RequestsTyped /\ Grounded

(* A change that takes an active owner away. *)
Removes(c) == c.op = "update" /\ role[c.who] = "OWNER" /\ (c.role # Same \/ c.on = FALSE)

(* A change of a user finds the rows again as it read them, since it is the  *)
(* only one; so the other owner it found is still there.                     *)
OwnerInv ==
    ~overlap =>
        /\ \E p \in active : role[p] = "OWNER"
        /\ \A q, r \in Requests : ChangesUser(q) /\ ChangesUser(r) => q = r
        /\ \A r \in Requests : ChangesUser(r) /\ Removes(request[r]) => AnotherOwner(request[r].who)

-----------------------------------------------------------------------------
LEMMA RolesAre ==
    /\ Roles = {"OWNER", "ADMIN", "MANAGER", "AGENT", "READ_ONLY"}
    /\ Offered \subseteq Roles /\ Absent \notin Roles /\ Same \notin Roles
<1>1. Roles = {"OWNER", "ADMIN", "MANAGER", "AGENT", "READ_ONLY"}
  BY DEF Roles, Rank
<1>2. QED
  BY <1>1, OfferedAssumption

(* What a turn of the rotation remembers is about the pool. *)
LEMMA AheadTyped ==
    ASSUME ahead \subseteq Pool \X People, NEW b \in People, b \in Pool
    PROVE  Rotation!AheadAfter(b) \subseteq Pool \X People
<1>1. (Pool \ {b}) \X {b} \subseteq Pool \X People
  OBVIOUS
<1>2. <<b, b>> \in Pool \X People
  OBVIOUS
<1>3. QED
  BY <1>1, <1>2 DEF Rotation!AheadAfter

(* A request that begins writes nothing but itself. *)
LEMMA BeginTyped ==
    ASSUME TypeInv, NEW r \in Requests, NEW c \in UserChanges \cup TeamChanges, Begin(r, c),
           c.op \in {"update", "add"} => c.who \in Exist,
           UNCHANGED <<userRows, online, teamRows>>, overlap' \in BOOLEAN
    PROVE  TypeInv'
<1>1. request' = [request EXCEPT ![r] = c] /\ UNCHANGED <<role, active>>
  BY DEF Begin, userRows
<1>2. UNCHANGED <<team, members, work, last, ahead, online>>
  BY DEF teamRows
<1>3. TypeOK'
  BY <1>1, <1>2 DEF TypeInv, TypeOK, Pool
<1>4. RequestsTyped'
  BY <1>1 DEF TypeInv, RequestsTyped
<1>5. Grounded'
  BY <1>1 DEF TypeInv, RequestsTyped, Grounded, Exist
<1>6. QED
  BY <1>3, <1>4, <1>5 DEF TypeInv

(* The commit of a change of a user. *)
LEMMA WriteUserTyped ==
    ASSUME TypeInv, NEW r \in Requests, WriteUser(r)
    PROVE  TypeInv'
<1>. DEFINE c == request[r]
            fails == c.op = "create" /\ role[c.who] # Absent
<1>1. c \in UserChanges /\ (c.op = "update" => c.who \in Exist)
  BY DEF TypeInv, RequestsTyped, Grounded, WriteUser, ChangesUser, UserChanges, TeamChanges
<1>2. role' = IF fails \/ c.role = Same THEN role ELSE [role EXCEPT ![c.who] = c.role]
  BY DEF WriteUser
<1>3. active' \in {active, active \cup {c.who}, active \ {c.who}}
      /\ (fails => active' = active)
  BY DEF WriteUser
<1>4. request' = [request EXCEPT ![r] = None]
      /\ UNCHANGED <<online, team, members, work, last, ahead, overlap>>
  BY DEF WriteUser, teamRows
<1>5. c.role # Same => c.role \in Roles
  BY <1>1, RolesAre DEF UserChanges
<1>6. role' \in [People -> Roles \cup {Absent}]
  BY <1>1, <1>2, <1>5 DEF TypeInv, TypeOK, UserChanges
<1>7. Exist \subseteq Exist'
  BY <1>1, <1>2, <1>5, <1>6, RolesAre DEF TypeInv, TypeOK, Exist, UserChanges
<1>8. active' \subseteq Exist'
  <2>1. c.op = "create" /\ ~fails => c.who \in Exist'
    BY <1>1, <1>2, RolesAre DEF TypeInv, TypeOK, Exist, UserChanges
  <2>2. QED
    BY <1>1, <1>3, <1>7, <2>1 DEF TypeInv, TypeOK, Exist, UserChanges
<1>9. QED
  BY <1>4, <1>6, <1>7, <1>8 DEF TypeInv, TypeOK, RequestsTyped, Grounded, Pool, Exist

(* The commit of a change of the team. *)
LEMMA WriteTeamTyped ==
    ASSUME TypeInv, NEW r \in Requests, WriteTeam(r)
    PROVE  TypeInv'
<1>. DEFINE c == request[r]
<1>1. c \in TeamChanges /\ (c.op = "add" => c.who \in Exist)
  BY DEF TypeInv, RequestsTyped, Grounded, WriteTeam, ChangesUser, UserChanges, TeamChanges
<1>2. /\ members' = CASE c.op = "add"    -> members \cup {c.who}
                       [] c.op = "remove" -> members \ {c.who}
                       [] c.op = "delete" -> {}
      /\ last' \in {0, last} /\ team' = (c.op # "delete") /\ ahead' = {}
      /\ team /\ (c.op = "delete" => ~work)
      /\ request' = [request EXCEPT ![r] = None]
      /\ UNCHANGED <<role, active, online, work, overlap>>
  BY DEF WriteTeam, Fits, userRows
<1>3. members' \subseteq Exist /\ (c.op = "delete" => members' = {})
  BY <1>1, <1>2 DEF TypeInv, TypeOK, TeamChanges, Exist
<1>4. TypeOK'
  BY <1>2, <1>3 DEF TypeInv, TypeOK, Exist
<1>5. QED
  BY <1>2, <1>4 DEF TypeInv, RequestsTyped, Grounded, Exist

(* A change of presence, a turn, the work that leaves and a failed commit. *)
LEMMA OtherTyped ==
    ASSUME TypeInv,
           \/ TransferAway
           \/ \E p \in People : Assign(p) \/ \E on \in BOOLEAN : SetStatus(p, on)
           \/ \E r \in Requests : WriteTeamFails(r)
           \/ UNCHANGED vars
    PROVE  TypeInv'
<1>1. CASE TransferAway
  BY <1>1 DEF TransferAway, TypeInv, TypeOK, RequestsTyped, Grounded, Exist, Pool, userRows
<1>2. ASSUME NEW p \in People, Assign(p) PROVE TypeInv'
  <2>1. p \in Pool /\ p \in Exist
    BY <1>2 DEF Assign, Rotation!IsNext, Pool, TypeInv, TypeOK, Exist
  <2>2. ahead' \subseteq Pool \X People
    BY <1>2, <2>1, AheadTyped DEF Assign, TypeInv, TypeOK
  <2>3. QED
    BY <1>2, <2>1, <2>2 DEF Assign, TypeInv, TypeOK, RequestsTyped, Grounded, Exist, Pool, userRows
<1>3. ASSUME NEW p \in People, NEW on \in BOOLEAN, SetStatus(p, on) PROVE TypeInv'
  <2>1. online' \subseteq Exist /\ UNCHANGED <<role, active, team, members, work, last, request, overlap>>
    BY <1>3 DEF SetStatus, Authorized, TypeInv, TypeOK, Exist, userRows
  <2>2. ahead' \subseteq Pool' \X People
    BY <1>3 DEF SetStatus, TypeInv, TypeOK, Pool
  <2>3. QED
    BY <2>1, <2>2 DEF TypeInv, TypeOK, RequestsTyped, Grounded, Exist
<1>4. ASSUME NEW r \in Requests, WriteTeamFails(r) PROVE TypeInv'
  BY <1>4 DEF WriteTeamFails, TypeInv, TypeOK, RequestsTyped, Grounded, Exist, Pool, userRows, teamRows
<1>5. CASE UNCHANGED vars
  BY <1>5 DEF vars, TypeInv, TypeOK, RequestsTyped, Grounded, Exist, Pool, userRows, teamRows
<1>6. QED
  BY <1>1, <1>2, <1>3, <1>4, <1>5

(* A request of an administrator begins. *)
LEMMA BeginsTyped ==
    ASSUME TypeInv, NEW r \in Requests, NEW a \in active, NEW p \in People,
           \/ DeleteTeam(r, a) \/ AddMember(r, a, p) \/ RemoveMember(r, a, p)
           \/ \E new \in Offered, on \in BOOLEAN : CreateUser(r, a, p, new, on)
           \/ \E new \in Offered \cup {Same}, on \in BOOLEAN \cup {Same} :
                  UpdateUser(r, a, p, new, on)
    PROVE  TypeInv'
<1>1. CASE DeleteTeam(r, a)
  BY <1>1, BeginTyped DEF DeleteTeam, BeginTeam, TeamChanges, TypeInv, TypeOK
<1>2. CASE AddMember(r, a, p)
  BY <1>2, BeginTyped DEF AddMember, BeginTeam, TeamChanges, TypeInv, TypeOK, Exist
<1>3. CASE RemoveMember(r, a, p)
  BY <1>3, BeginTyped DEF RemoveMember, BeginTeam, TeamChanges, TypeInv, TypeOK
<1>4. ASSUME NEW new \in Offered, NEW on \in BOOLEAN, CreateUser(r, a, p, new, on)
      PROVE  TypeInv'
  BY <1>4, BeginTyped DEF CreateUser, Overlaps, UserChanges, TypeInv, TypeOK
<1>5. ASSUME NEW new \in Offered \cup {Same}, NEW on \in BOOLEAN \cup {Same},
             UpdateUser(r, a, p, new, on)
      PROVE  TypeInv'
  BY <1>5, BeginTyped DEF UpdateUser, Overlaps, UserChanges, TypeInv, TypeOK, Exist
<1>6. QED
  BY <1>1, <1>2, <1>3, <1>4, <1>5

LEMMA NextTyped == ASSUME TypeInv, [Next]_vars PROVE TypeInv'
<1>1. ASSUME NEW r \in Requests, WriteUser(r) \/ WriteTeam(r) PROVE TypeInv'
  BY <1>1, WriteUserTyped, WriteTeamTyped
<1>2. CASE \/ TransferAway
           \/ \E p \in People : Assign(p) \/ \E on \in BOOLEAN : SetStatus(p, on)
           \/ \E r \in Requests : WriteTeamFails(r)
           \/ UNCHANGED vars
  BY <1>2, OtherTyped
<1>3. ASSUME NEW r \in Requests, NEW a \in active,
             DeleteTeam(r, a) \/ \E p \in People : AddMember(r, a, p) \/ RemoveMember(r, a, p)
      PROVE  TypeInv'
  <2>1. People # {}
    BY FoundersAssumption
  <2>2. QED
    BY <1>3, <2>1, BeginsTyped
<1>4. ASSUME NEW r \in Requests, NEW a \in active, NEW p \in People,
             \/ \E new \in Offered, on \in BOOLEAN : CreateUser(r, a, p, new, on)
             \/ \E new \in Offered \cup {Same}, on \in BOOLEAN \cup {Same} :
                    UpdateUser(r, a, p, new, on)
      PROVE  TypeInv'
  BY <1>4, BeginsTyped
<1>5. QED
  BY <1>1, <1>2, <1>3, <1>4 DEF Next

LEMMA InitTyped == Init => TypeInv
<1>. SUFFICES ASSUME Init PROVE TypeInv
  OBVIOUS
<1>1. TypeOK
  BY FoundersAssumption, RolesAre DEF Init, TypeOK, Pool
<1>2. RequestsTyped /\ Grounded
  BY DEF Init, RequestsTyped, Grounded
<1>3. QED
  BY <1>1, <1>2 DEF TypeInv

(* TypeOK is an invariant: requests that were decided on rows since changed  *)
(* never leave a member, an ONLINE mark or a pointer without its user, nor a *)
(* member or work without its team.                                          *)
THEOREM TypeHolds == Spec => []TypeOK
<1>1. Init => TypeInv
  BY InitTyped
<1>2. TypeInv /\ [Next]_vars => TypeInv'
  BY NextTyped
<1>3. TypeInv => TypeOK
  BY DEF TypeInv
<1>4. QED
  BY <1>1, <1>2, <1>3, PTL DEF Spec

-----------------------------------------------------------------------------
(* A change of a user that begins overlaps another, or is the only one and    *)
(* has just seen the owner who stays.                                        *)
LEMMA BeginKeepsOwner ==
    ASSUME TypeInv, OwnerInv, NEW r \in Requests, NEW c \in UserChanges, Begin(r, c),
           Removes(c) => AnotherOwner(c.who), Overlaps, UNCHANGED userRows
    PROVE  OwnerInv'
<1>. SUFFICES ASSUME ~overlap' PROVE OwnerInv'
  BY DEF OwnerInv
<1>1. ~overlap /\ \A q \in Requests : ~ChangesUser(q)
  BY DEF Overlaps, TypeInv, TypeOK
<1>2. request' = [request EXCEPT ![r] = c] /\ UNCHANGED <<role, active>>
  BY DEF Begin, userRows
<1>3. \A q \in Requests : q # r => ~ChangesUser(q)'
  BY <1>1, <1>2 DEF ChangesUser, TypeInv, RequestsTyped
<1>4. (ChangesUser(r) /\ Removes(request[r]) => AnotherOwner(request[r].who))'
  BY <1>2 DEF Removes, AnotherOwner, TypeInv, RequestsTyped
<1>5. QED
  BY <1>1, <1>2, <1>3, <1>4 DEF OwnerInv

(* The commit of the only change finds what it has read, so the owner stays. *)
LEMMA WriteUserKeepsOwner ==
    ASSUME TypeInv, OwnerInv, NEW r \in Requests, WriteUser(r)
    PROVE  OwnerInv'
<1>. SUFFICES ASSUME ~overlap' PROVE OwnerInv'
  BY DEF OwnerInv
<1>. DEFINE c == request[r]
            fails == c.op = "create" /\ role[c.who] # Absent
<1>1. ~overlap /\ request' = [request EXCEPT ![r] = None] /\ ChangesUser(r)
  BY DEF WriteUser
<1>2. \A q \in Requests : ~ChangesUser(q)'
  BY <1>1 DEF OwnerInv, ChangesUser, TypeInv, RequestsTyped
<1>3. c \in UserChanges
  BY <1>1 DEF TypeInv, RequestsTyped, ChangesUser, UserChanges, TeamChanges
<1>4. role' = IF fails \/ c.role = Same THEN role ELSE [role EXCEPT ![c.who] = c.role]
  BY DEF WriteUser
<1>5. active' = IF fails \/ c.on = Same THEN active
                ELSE IF c.on THEN active \cup {c.who} ELSE active \ {c.who}
  BY DEF WriteUser
<1>6. \E p \in active' : role'[p] = "OWNER"
  <2>1. CASE Removes(c)
    <3>1. PICK p \in active \ {c.who} : role[p] = "OWNER"
      BY <1>1, <2>1 DEF OwnerInv, AnotherOwner
    <3>2. p \in active' /\ role'[p] = "OWNER"
      BY <1>4, <1>5, <3>1 DEF TypeInv, TypeOK
    <3>3. QED
      BY <3>2
  <2>2. CASE ~Removes(c)
    <3>1. PICK p \in active : role[p] = "OWNER"
      BY <1>1 DEF OwnerInv
    <3>2. "OWNER" # Absent
      BY RolesAre
    <3>3. CASE p # c.who
      <4>1. p \in active' /\ role'[p] = "OWNER"
        BY <1>4, <1>5, <3>1, <3>3 DEF TypeInv, TypeOK
      <4>2. QED
        BY <4>1
    <3>4. CASE p = c.who
      <4>1. c.op = "create" => fails
        BY <3>1, <3>2, <3>4
      <4>2. c.op = "update" => c.role = Same /\ c.on # FALSE
        BY <2>2, <3>1, <3>4 DEF Removes
      <4>3. p \in active' /\ role'[p] = "OWNER"
        BY <1>3, <1>4, <1>5, <3>1, <4>1, <4>2 DEF UserChanges
      <4>4. QED
        BY <4>3
    <3>5. QED
      BY <3>3, <3>4
  <2>3. QED
    BY <2>1, <2>2
<1>7. QED
  BY <1>2, <1>6 DEF OwnerInv

(* Every other step leaves users and their changes alone. *)
LEMMA OthersKeepOwner ==
    ASSUME TypeInv, OwnerInv, UNCHANGED <<userRows, overlap>>,
           \A r \in Requests : ChangesUser(r)' => ChangesUser(r) /\ request'[r] = request[r]
    PROVE  OwnerInv'
  BY DEF OwnerInv, userRows, Removes, AnotherOwner, ChangesUser

LEMMA NextKeepsOwner == ASSUME TypeInv, OwnerInv, [Next]_vars PROVE OwnerInv'
<1>1. ASSUME NEW r \in Requests, WriteUser(r) PROVE OwnerInv'
  BY <1>1, WriteUserKeepsOwner
<1>2. ASSUME NEW r \in Requests, WriteTeam(r) \/ WriteTeamFails(r) PROVE OwnerInv'
  BY <1>2, OthersKeepOwner
     DEF WriteTeam, WriteTeamFails, ChangesUser, userRows, TypeInv, RequestsTyped
<1>3. CASE \/ TransferAway \/ UNCHANGED vars
           \/ \E p \in People : Assign(p) \/ \E on \in BOOLEAN : SetStatus(p, on)
  BY <1>3, OthersKeepOwner
     DEF TransferAway, Assign, SetStatus, vars, ChangesUser, userRows, teamRows
<1>4. ASSUME NEW r \in Requests, NEW a \in active, NEW p \in People,
             DeleteTeam(r, a) \/ AddMember(r, a, p) \/ RemoveMember(r, a, p)
      PROVE  OwnerInv'
  BY <1>4, OthersKeepOwner
     DEF DeleteTeam, AddMember, RemoveMember, BeginTeam, Begin, ChangesUser, userRows,
         TypeInv, RequestsTyped
<1>5. ASSUME NEW r \in Requests, NEW a \in active, NEW p \in People,
             NEW new \in Offered, NEW on \in BOOLEAN, CreateUser(r, a, p, new, on)
      PROVE  OwnerInv'
  BY <1>5, BeginKeepsOwner DEF CreateUser, UserChanges, Removes
<1>6. ASSUME NEW r \in Requests, NEW a \in active, NEW p \in People,
             NEW new \in Offered \cup {Same}, NEW on \in BOOLEAN \cup {Same},
             UpdateUser(r, a, p, new, on)
      PROVE  OwnerInv'
  <2>. DEFINE moves == new \notin {Same, role[p]}
              turns == on # Same /\ on # (p \in active)
              c == [op |-> "update", who |-> p, role |-> IF moves THEN new ELSE Same,
                    on |-> IF turns THEN on ELSE Same]
  <2>1. c \in UserChanges
    BY DEF UserChanges
  <2>2. Removes(c) => AnotherOwner(c.who)
    BY <1>6 DEF UpdateUser, Removes
  <2>3. Begin(r, c) /\ Overlaps /\ UNCHANGED userRows
    BY <1>6 DEF UpdateUser
  <2>4. QED
    BY <2>1, <2>2, <2>3, BeginKeepsOwner
<1>7. ASSUME NEW r \in Requests, NEW a \in active, DeleteTeam(r, a) PROVE OwnerInv'
  <2>1. People # {}
    BY FoundersAssumption
  <2>2. QED
    BY <1>4, <1>7, <2>1
<1>8. QED
  BY <1>1, <1>2, <1>3, <1>4, <1>5, <1>6, <1>7 DEF Next

(* The inductive invariant of the changes of users: types, and what a change *)
(* that overlaps no other still knows when it commits.                       *)
THEOREM OwnerHolds == Spec => [](TypeInv /\ OwnerInv)
<1>1. Init => TypeInv /\ OwnerInv
  <2>1. Init => OwnerInv
    BY FoundersAssumption DEF Init, OwnerInv, ChangesUser
  <2>2. QED
    BY <2>1, InitTyped
<1>2. TypeInv /\ OwnerInv /\ [Next]_vars => (TypeInv /\ OwnerInv)'
  BY NextTyped, NextKeepsOwner
<1>3. QED
  BY <1>1, <1>2, PTL DEF Spec

(* Unless two changes of users overlap, an active owner remains.             *)
THEOREM OwnerStays == Spec => []OwnerRemains
<1>1. TypeInv /\ OwnerInv => OwnerRemains
  BY DEF OwnerInv, OwnerRemains
<1>2. QED
  BY <1>1, OwnerHolds, PTL

-----------------------------------------------------------------------------
(* The rotation by itself.  Pool is all that it sees of Staff, and Pool may   *)
(* be any set of people: what follows holds of every behaviour of Rotation.  *)

LEMMA PeopleAreIds == Rotation!AgentsAreIds
BY PeopleAssumption DEF Rotation!AgentsAreIds, Rotation!Nobody

(* An agent who has had a turn since a waiting one is not next.              *)
LEMMA TurnOvertakesNobody ==
    ASSUME Rotation!OrderKept, NEW b \in People, Rotation!Turn(b), NEW a \in Pool
    PROVE  <<a, b>> \notin ahead
<1>. SUFFICES ASSUME <<a, b>> \in ahead PROVE FALSE
  OBVIOUS
<1>1. Rotation!IsNext(Pool, last, b) /\ b \in Pool
  BY DEF Rotation!Turn, Rotation!IsNext
<1>2. a \in People
  BY DEF Rotation!OrderKept, Rotation!RotationType
<1>3. a # b /\ last \in Pool /\ Rotation!Between(a, b, last)
  BY <1>1, <1>2 DEF Rotation!OrderKept
<1>4. a \in Nat /\ b \in Nat /\ last \in Nat
  BY <1>2, <1>3, PeopleAreIds DEF Rotation!OrderKept, Rotation!RotationType, Rotation!Nobody, Rotation!AgentsAreIds
<1>5. QED
  BY <1>1, <1>3, <1>4 DEF Rotation!IsNext, Rotation!After, Rotation!Between

(* The first turn, or a turn in order, leaves the waiting agents in order.   *)
LEMMA TurnKeepsOrder ==
    ASSUME Rotation!OrderKept, NEW n \in People, Rotation!Turn(n)
    PROVE  Rotation!OrderKept'
<1>0. ahead' = {x \in ahead : x[1] # n} \cup ((Pool \ {n}) \X {n})
  BY TurnOvertakesNobody DEF Rotation!Turn, Rotation!AheadAfter
<1>1. Rotation!RotationType'
  BY <1>0 DEF Rotation!OrderKept, Rotation!RotationType, Rotation!Turn
<1>2. (ahead # {} => last \in People)'
  BY DEF Rotation!Turn
<1>3. ASSUME NEW a \in People, NEW b \in People, <<a, b>> \in ahead', b \in Pool
      PROVE  a # b /\ last' \in Pool /\ Rotation!Between(a, b, last')
  <2>1. CASE b = n
    <3>1. a # n
      BY <1>0, <1>3, <2>1 DEF Rotation!OrderKept
    <3>2. QED
      BY <1>3, <2>1, <3>1, PeopleAreIds DEF Rotation!Turn, Rotation!Between, Rotation!AgentsAreIds, Rotation!Nobody
  <2>2. CASE b # n
    <3>1. <<a, b>> \in ahead /\ a # n
      BY <1>0, <1>3, <2>2
    <3>2. a # b /\ a \in Pool /\ last \in Pool /\ Rotation!Between(a, b, last)
      BY <1>3, <3>1 DEF Rotation!OrderKept
    <3>3. Rotation!IsNext(Pool, last, n) /\ last' = n /\ n \in Pool
      BY <3>1 DEF Rotation!Turn, Rotation!IsNext
    <3>4. a \in Nat /\ b \in Nat /\ n \in Nat /\ last \in Nat
      BY <3>2, PeopleAreIds DEF Rotation!OrderKept, Rotation!RotationType, Rotation!Nobody, Rotation!AgentsAreIds
    <3>5. Rotation!Between(a, b, n)
      <4>1. CASE Rotation!After(Pool, last) # {}
        <5>1. n > last /\ \A c \in Pool : c > last => n <= c
          BY <3>2, <3>3, <4>1 DEF Rotation!IsNext, Rotation!After
        <5>2. (b > last => n <= b) /\ (a > last => n <= a)
          BY <1>3, <3>2, <5>1
        <5>3. QED
          BY <3>1, <3>2, <3>4, <5>1, <5>2, <2>2 DEF Rotation!Between
      <4>2. CASE Rotation!After(Pool, last) = {}
        <5>1. n <= a /\ n <= b /\ ~(a > last) /\ ~(b > last)
          BY <1>3, <3>2, <3>3, <4>2 DEF Rotation!IsNext, Rotation!After
        <5>2. QED
          BY <3>1, <3>2, <3>4, <5>1, <2>2 DEF Rotation!Between
      <4>3. QED
        BY <4>1, <4>2
    <3>6. QED
      BY <3>2, <3>3, <3>5
  <2>3. QED
    BY <2>1, <2>2
<1>4. ASSUME NEW a \in People, NEW b \in People, <<a, b>> \in ahead'
      PROVE  a # b /\ a \in Pool
  BY <1>0, <1>4 DEF Rotation!OrderKept, Rotation!Turn
<1>5. Pool' = Pool
  BY DEF Rotation!Turn
<1>6. QED
  BY <1>1, <1>2, <1>3, <1>4, <1>5 DEF Rotation!OrderKept

(* OrderKept is an invariant: it holds initially, a change of the pool       *)
(* clears what it speaks of, and a turn keeps it.                            *)
THEOREM OrderHolds == Rotation!Spec => []Rotation!OrderKept
<1>1. Rotation!Init => Rotation!OrderKept
  BY DEF Rotation!Init, Rotation!OrderKept, Rotation!RotationType
<1>2. ASSUME Rotation!OrderKept, [Rotation!Next]_(Rotation!vars) PROVE Rotation!OrderKept'
  <2>1. ASSUME NEW a \in People, Rotation!Turn(a) PROVE Rotation!OrderKept'
    BY <1>2, <2>1, TurnKeepsOrder
  <2>2. ASSUME NEW a \in People, Rotation!Join(a) \/ Rotation!Leave(a) PROVE Rotation!OrderKept'
    BY <1>2, <2>2 DEF Rotation!OrderKept, Rotation!RotationType, Rotation!Join, Rotation!Leave
  <2>3. CASE Rotation!ForgetLast
    BY <1>2, <2>3 DEF Rotation!OrderKept, Rotation!RotationType, Rotation!ForgetLast
  <2>4. CASE UNCHANGED Rotation!vars
    BY <1>2, <2>4 DEF Rotation!OrderKept, Rotation!RotationType, Rotation!Between, Rotation!vars
  <2>5. QED
    BY <1>2, <2>1, <2>2, <2>3, <2>4 DEF Rotation!Next
<1>3. QED
  BY <1>1, <1>2, PTL DEF Rotation!Spec

(* Between two changes of the pool nobody has a second turn before everybody *)
(* who waits has had one, for any number of agents.                          *)
THEOREM RotationIsFair == Rotation!Spec => Rotation!NobodyOvertaken
<1>1. ASSUME Rotation!OrderKept, NEW b \in People, Rotation!Turn(b), NEW a \in Pool PROVE <<a, b>> \notin ahead
  BY <1>1, TurnOvertakesNobody
<1>2. Rotation!OrderKept => [\A b \in People : Rotation!Turn(b) => \A a \in Pool : <<a, b>> \notin ahead]_(Rotation!vars)
  BY <1>1
<1>3. QED
  BY <1>2, OrderHolds, PTL DEF Rotation!NobodyOvertaken

-----------------------------------------------------------------------------
(* The order of Rotation survives a step of Staff: a turn is Rotation's, and *)
(* whatever else changes the pool or the pointer starts the memory afresh.   *)
LEMMA NextKeepsOrder ==
    ASSUME TypeInv, Rotation!OrderKept, [Next]_vars
    PROVE  Rotation!OrderKept'
<1>. USE PeopleAssumption DEF Rotation!Nobody
<1>1. TypeInv'
  BY NextTyped
<1>2. Pool' \in SUBSET People /\ last' \in People \cup {0}
  BY <1>1 DEF TypeInv, TypeOK, Pool
<1>3. CASE ahead' = {}
  BY <1>2, <1>3 DEF Rotation!OrderKept, Rotation!RotationType
<1>4. CASE UNCHANGED <<Pool, last, ahead>>
  BY <1>4 DEF Rotation!OrderKept, Rotation!RotationType, Rotation!Between
<1>5. ASSUME NEW b \in People, Assign(b) PROVE Rotation!OrderKept'
  <2>1. Rotation!Turn(b)
    BY <1>5 DEF Assign, Pool, Rotation!Turn
  <2>2. QED
    BY <2>1, TurnKeepsOrder
<1>6. ASSUME NEW p \in People, NEW on \in BOOLEAN, SetStatus(p, on)
      PROVE  ahead' = {} \/ UNCHANGED <<Pool, last, ahead>>
  BY <1>6 DEF SetStatus, Pool
<1>7. ASSUME NEW r \in Requests, WriteUser(r) \/ WriteTeam(r) \/ WriteTeamFails(r)
      PROVE  ahead' = {} \/ UNCHANGED <<Pool, last, ahead>>
  BY <1>7 DEF WriteUser, WriteTeam, WriteTeamFails, teamRows, Pool
<1>8. ASSUME NEW r \in Requests, NEW a \in active, NEW p \in People,
             \/ DeleteTeam(r, a) \/ AddMember(r, a, p) \/ RemoveMember(r, a, p)
             \/ \E new \in Offered, on \in BOOLEAN : CreateUser(r, a, p, new, on)
             \/ \E new \in Offered \cup {Same}, on \in BOOLEAN \cup {Same} :
                    UpdateUser(r, a, p, new, on)
      PROVE  UNCHANGED <<Pool, last, ahead>>
  BY <1>8 DEF DeleteTeam, AddMember, RemoveMember, BeginTeam, CreateUser, UpdateUser,
              teamRows, Pool
<1>9. ASSUME NEW r \in Requests, NEW a \in active, DeleteTeam(r, a)
      PROVE  UNCHANGED <<Pool, last, ahead>>
  BY <1>9 DEF DeleteTeam, BeginTeam, teamRows, Pool
<1>10. CASE TransferAway \/ UNCHANGED vars
  BY <1>4, <1>10 DEF TransferAway, vars, teamRows, Pool
<1>11. QED
  BY <1>3, <1>4, <1>5, <1>6, <1>7, <1>8, <1>9, <1>10 DEF Next

(* The rotation overtakes nobody between two changes of its pool, whatever   *)
(* requests to change users and team do meanwhile.                           *)
THEOREM StaffOvertakesNobody == Spec => NobodyOvertaken
<1>. DEFINE Inv == TypeInv /\ Rotation!OrderKept
<1>1. Init => Inv
  <2>1. Init => Rotation!OrderKept
    BY InitTyped DEF Init, Rotation!OrderKept, Rotation!RotationType, Rotation!Nobody, Pool, TypeInv, TypeOK
  <2>2. QED
    BY <2>1, InitTyped
<1>2. Inv /\ [Next]_vars => Inv'
  BY NextTyped, NextKeepsOrder
<1>3. Inv /\ [Next]_vars
      => [\A b \in People : Rotation!Turn(b) => \A a \in Pool : <<a, b>> \notin ahead]_(Rotation!vars)
  BY TurnOvertakesNobody
<1>4. QED
  BY <1>1, <1>2, <1>3, PTL DEF Spec, NobodyOvertaken, Rotation!NobodyOvertaken
=============================================================================
