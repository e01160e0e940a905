------------------------------ MODULE IpAllow ------------------------------
(***************************************************************************)
(* The panel's whitelist: ip_allowed of src/src/auth.rs, with its mask     *)
(* arithmetic, on addresses of Width bits.                                 *)
(***************************************************************************)
EXTENDS Naturals, Sequences

CONSTANT Width   \* bits of an IPv4 address, 32

ASSUME WidthAssumption == Width \in Nat \ {0}

\* 2^i, as a function because its arithmetic is proved (Lifecycle_proofs).
Power[i \in 0..Width] == IF i = 0 THEN 1 ELSE 2 * Power[i - 1]

\* An address, and what a line of the list may be once trimmed.
IpV4 == [v : {4}, n : 0..(Power[Width] - 1)]
IpV6(names) == [v : {6}, n : names]
Blank == [kind |-> "blank"]
NoAddress == [kind |-> "other"]
Exact(ip) == [kind |-> "ip", ip |-> ip]
Cidr(net, prefix) == [kind |-> "cidr", ip |-> net, prefix |-> prefix]

IsEntry(e) ==
    \/ e \in {Blank, NoAddress} \/ e = Exact(e.ip)
    \/ e = Cidr(e.ip, e.prefix) /\ e.ip \in IpV4 /\ e.prefix \in Nat

----------------------------------------------------------------------------

Bit(n, i) == (n \div Power[i]) % 2

\* (a & mask) == (b & mask)
EqualUnder(mask, a, b) == \A i \in 0..(Width - 1) : Bit(mask, i) = 1 => Bit(a, i) = Bit(b, i)

Ones == Power[Width] - 1
Shifted(k) == Power[k] % Power[Width]
Not(n) == Ones - n

\* Mutant: prefix 0 has no case of its own, and a shift by the width shifts by 0.
ipv4_match_NoZero(ip, net, prefix) ==
    EqualUnder(IF prefix = Width THEN Ones ELSE Not(Shifted((Width - prefix) % Width) - 1), ip, net)

ipv4_match(ip, net, prefix) ==
    \/ prefix = 0
    \/ EqualUnder(IF prefix = Width THEN Ones ELSE Not(Shifted(Width - prefix) - 1), ip, net)

\* A CIDR whose prefix is too long is no CIDR, and no address either.
Matches(entry, ip) ==
    \/ /\ entry.kind = "cidr" /\ entry.prefix <= Width
       /\ ip.v = 4 /\ ipv4_match(ip.n, entry.ip.n, entry.prefix)
    \/ entry.kind = "ip" /\ entry.ip = ip

ip_allowed(allowed, ip) ==
    allowed = <<>> \/ \E i \in DOMAIN allowed : Matches(allowed[i], ip)

----------------------------------------------------------------------------

\* What a CIDR stands for: the addresses that agree with it in its first bits.
SamePrefix(a, b, prefix) == a \div Power[Width - prefix] = b \div Power[Width - prefix]

Covered(allowed, ip) ==
    \/ allowed = <<>>
    \/ \E i \in DOMAIN allowed : allowed[i] = Exact(ip)
    \/ \E i \in DOMAIN allowed, prefix \in 0..Width, net \in IpV4 :
        allowed[i] = Cidr(net, prefix) /\ ip.v = 4 /\ SamePrefix(ip.n, net.n, prefix)

=============================================================================
