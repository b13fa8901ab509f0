---------------------------- MODULE MCMediaTiming ----------------------------
EXTENDS MediaTiming

Brief(product, business, message, cta, description, tone) ==
    [product |-> product, business |-> business, message |-> message,
     cta |-> cta, description |-> description, tone |-> tone]

\* Names, message and call to action from a few words to far too many; sentences
\* to add that fit both, one or not at all.
MCBriefs ==
    {Brief(names, names, message, 8, description, tone) :
        names \in {1, 4, 9}, message \in {4, 12}, description \in {3, 11}, tone \in {1, 10}}

\* Plans of four to nine shots: two shots in turn and another as the last.
MCShots ==
    {Shot(1, 1500, TRUE, "CUT", {}),
     Shot(2, 3000, FALSE, "CROSSFADE", {"WHOOSH", "IMPACT"}),
     Shot(3, 2500, FALSE, "MASK_REVEAL", {}),
     Shot(3, 2000, TRUE, "WIPE", {})}

MCFirst == Shot(1, 1500, TRUE, "CUT", {})

MCPlan(n, a, b, last, extra) ==
    LET shots == [i \in 1..n |-> CASE i = n -> last [] i < n /\ i % 2 = 1 -> a [] OTHER -> b]
    IN [total |-> Total(Lengths(shots)) + extra, shots |-> shots]

MCAnswers ==
    {MCPlan(n, MCFirst, b, last, 10) : n \in {4, 5, 6, 9}, b \in MCShots, last \in MCShots}
        \cup {MCPlan(n, a, a, a, extra) : n \in {5, 8}, a \in MCShots, extra \in {0, 1000}}

MCDeviations == {-30, -14, 0, 14, 20, 30}
=============================================================================
