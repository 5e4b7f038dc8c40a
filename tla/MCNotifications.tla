--------------------------- MODULE MCNotifications ---------------------------
(* Notifications with a user who may switch them off or have them by mail. *)
EXTENDS Notifications

MCChoices == {[Default EXCEPT !.enabled = FALSE],
              [Default EXCEPT !.in_app = FALSE, !.email = TRUE]}
=============================================================================
