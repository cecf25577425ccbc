----------------------------- MODULE SubnetPolicy -----------------------------
(***************************************************************************)
(* The deception subnet policy (controller/app/policy.py).  A network is a *)
(* record of its address family, its address and the length of its prefix; *)
(* addresses are AddressBits wide.                                         *)
(***************************************************************************)
EXTENDS Integers

CONSTANT AddressBits

\* ip_network() raises on an address with bits beyond the prefix.
IsNetwork(net) == net.addr % 2 ^ (AddressBits - net.prefix) = 0

\* subnet_of(): the prefix of other begins that of net.
SubnetOf(net, other) ==
    LET size == 2 ^ (AddressBits - other.prefix)
    IN  other.prefix <= net.prefix /\ net.addr \div size = other.addr \div size

\* Networks of different families are not compared.
Within(net, other) == net.family = other.family /\ SubnetOf(net, other)

\* is_allowed(): a blocked network that holds net forbids it; an empty list
\* of allowed networks allows all others.
IsAllowed(net, allowed, blocked) ==
    /\ \A b \in blocked : ~Within(net, b)
    /\ allowed = {} \/ \E a \in allowed : Within(net, a)
=============================================================================
