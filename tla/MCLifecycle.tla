---------------------------- MODULE MCLifecycle ----------------------------
\* The instance TLC runs: lifecycle.cfg.
EXTENDS Lifecycle

CONSTANT v6

Base == [tls |-> "self", panel_tls |-> "none", status |-> "start", panel_bind |-> "good",
         server_port |-> 1, panel_port |-> 2, allowed |-> <<>>]

V4(n) == [v |-> 4, n |-> n]
V6 == [v |-> 6, n |-> v6]

\* CIDRs of each kind of prefix, one too long, addresses of both kinds, lines that say nothing.
Lists == {<<Cidr(V4(5), 0)>>, <<Cidr(V4(5), 2), Cidr(V4(3), 4)>>, <<Blank, Exact(V6)>>,
          <<NoAddress, Exact(V4(3)), Cidr(V4(6), 3), Cidr(V4(0), 2)>>}

\* One setting changed at a time, and what the two services share.
Considered ==
    {Base, [Base EXCEPT !.status = "stop"],
     [Base EXCEPT !.panel_bind = "bad"], [Base EXCEPT !.panel_port = 1], [Base EXCEPT !.server_port = 3],
     [Base EXCEPT !.panel_tls = "tls"], [Base EXCEPT !.panel_tls = "tls", !.tls = "public"]} \cup
    {[Base EXCEPT !.allowed = list, !.tls = "none"] : list \in Lists}

Addresses == {V4(4), V6}

=============================================================================
