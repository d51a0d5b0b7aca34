--------------------------- MODULE MCRequestServer ---------------------------
(* A small instance of RequestServer for TLC: words of two bits, bytes of one. *)
EXTENDS RequestServer, TLC

CONSTANTS c1, c2

Hosts == (c1 :> {1}) @@ (c2 :> {0, 1})

Keys == (c1 :> {0}) @@ (c2 :> {0, 1})

(* Both clients, after a key of nobody; c1 alone, with the key of c2 beside   *)
(* another address; c1 alone, with its key beside the address of c2 too; a    *)
(* list cut after an address; none.                                          *)
AclFiles ==
  {<<{}, {1}, {1}, {0}, {0, 1}, {0, 1}>>,
   <<{1}, {0}, {0}, {0, 1}>>,
   <<{1}, {0}, {0, 1}, {0}>>,
   <<{1}, {0}, {0, 1}>>,
   <<>>}

Data == <<{0}, {}>>
=============================================================================
