---------------------------- MODULE MCMailIntake ----------------------------
(* Four calls deliver three mails, the first of them twice: a first mail, an *)
(* answer to it by another address, and a mail that only shares its subject. *)
EXTENDS MailIntake, TLC

CONSTANTS m1, m2, m3, a1, a2

MCMails     == {m1, m2, m3}
MCCalls     == 1..4
MCOf        == <<m1, m1, m2, m3>>
MCFrom      == m1 :> a1 @@ m2 :> a2 @@ m3 :> a1
MCSubject   == [m \in MCMails |-> "help"]
MCRepliesTo == m1 :> {} @@ m2 :> {m1} @@ m3 :> {}
MCNoRow     == 0
=============================================================================
