----------------------------- MODULE MCPushApi -----------------------------
\* The instance TLC runs: push_api.cfg.
EXTENDS PushApi

CONSTANTS k1, k2, a1

Q(query, body) == [query |-> query, body |-> body, words |-> {}]
Hook(query, body, words) == [query |-> query, body |-> body, words |-> words]
To(key) == [push_key |-> key]
Hello == [title |-> <<Words>>]

\* Requests that differ in what is checked: keys and aliases, empty and object
\* parameters, query against body, a webhook that is translated and one that is not.
Sent ==
    {Q(To(<<k1>>), Hello), Q(To(<<k1, Blank, k2>>), Hello), Q(To(<<k1, k1, k2, Blank>>), Hello),
     Q([temp_key |-> <<a1>>], Hello), Q([temp_key |-> <<Blank>>], Hello),
     Q([temp_key |-> <<a1>>], To(<<>>) @@ Hello), Q(<<>>, <<>>),
     Q(To(<<k1>>), [title |-> <<Blank>>, content |-> <<Blank>>]), Q(To(<<k1>>), [content |-> <<>>]),
     Hook(To(<<k1>>), [msg_type |-> <<"text">>, content |-> <<>>], {"root", "content"}),
     Hook(To(<<k1>>), [msgtype |-> <<"markdown">>, content |-> <<>>], {"title", "root", "content"}),
     Hook(To(<<k1>>), [msgtype |-> <<"voice">>, content |-> <<>>], {"root"})}

\* Which panel request does what makes no difference.
Symmetry == Permutations(Handlers)

=============================================================================
