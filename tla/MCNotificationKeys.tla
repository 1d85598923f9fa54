------------------------- MODULE MCNotificationKeys -------------------------
(***************************************************************************)
(* Names with and without a slash, and undefined ones.                     *)
(***************************************************************************)
EXTENDS NotificationKeys

SomeServices == {<<"fw">>, <<"edge", "fw">>, << >>}
SomeKeys == {"app", ""}
SomeValues == {"nat", ""}
=============================================================================
