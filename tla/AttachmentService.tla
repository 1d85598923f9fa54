------------------------- MODULE AttachmentService -------------------------
(***************************************************************************)
(* What an endpoint promises to the clients of a network service: a client *)
(* is attached through a link of its own, a request of an attached client  *)
(* renews its link, and nobody else's attachment is touched.  A service    *)
(* for a single client admits a client only when no other is attached.     *)
(***************************************************************************)
CONSTANTS Clients, Links

VARIABLES
  single,     \* does the service admit a single client only?
  attached    \* attached clients -> their links

Init == single \in BOOLEAN /\ attached = [x \in {} |-> x]

Attach(c, l) ==
  /\ single => DOMAIN attached \subseteq {c}
  /\ attached' = [x \in DOMAIN attached \cup {c} |-> IF x = c THEN l ELSE attached[x]]
  /\ UNCHANGED single

Detach(S) ==
  /\ attached' = [x \in DOMAIN attached \ S |-> attached[x]]
  /\ UNCHANGED single

Next ==
  \/ \E c \in Clients, l \in Links : Attach(c, l)
  \/ \E S \in SUBSET Clients : Detach(S)

Spec == Init /\ [][Next]_<<single, attached>>
=============================================================================
