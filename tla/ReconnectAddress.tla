--------------------------- MODULE ReconnectAddress ---------------------------
(***************************************************************************)
(* The addresses a client may reconnect to (Params/ConnectAddress.h): the  *)
(* one in use, the others in the order they will be used, and those that   *)
(* were used.  An operator for each member function of ReconnectAddress.   *)
(***************************************************************************)
EXTENDS Integers, Sequences, SequencesExt

Reset(blueprint) ==
    [primary |-> blueprint.primary, others |-> blueprint.others, used |-> <<>>]

\* What tryCycleToNextPrimaryAddress returns.
AddressLeft(a) == a.others # <<>>

\* Mutant: the address stays among the others.
TryCycleKept(a) ==
    IF AddressLeft(a)
    THEN [primary |-> Head(a.others), others |-> a.others, used |-> Append(a.used, a.primary)]
    ELSE a

\* What it does.
TryCycle(a) ==
    IF AddressLeft(a)
    THEN [primary |-> Head(a.others), others |-> Tail(a.others),
          used    |-> Append(a.used, a.primary)]
    ELSE a

\* Mutant: any address is added.
NothingKnown(a) == {}

\* The addresses addAddresses passes over.
Known(a) == {a.primary} \union ToSet(a.others) \union ToSet(a.used)

\* The first i of the addresses are added one after another.
AddAddresses(a, addresses) ==
    LET Added[i \in 0 .. Len(addresses)] ==
            IF i = 0 THEN a
            ELSE IF addresses[i] \in Known(Added[i - 1]) THEN Added[i - 1]
            ELSE [Added[i - 1] EXCEPT !.others = Append(@, addresses[i])]
    IN  Added[Len(addresses)]
=============================================================================
