------------------------------ MODULE EventPages ------------------------------
(***************************************************************************)
(* GET /events while the log grows: a client that reads the first page and *)
(* then follows next_cursor until there is none.                           *)
(***************************************************************************)
EXTENDS EventLog, FiniteSets

CONSTANT Limit   \* the query parameter limit

ASSUME LimitAssumption == Limit \in Nat \ {0}

VARIABLE reader  \* its cursor, the events it was given, whether next_cursor was null

-----------------------------------------------------------------------------
Start == [after |-> 0, got |-> {}, over |-> FALSE]

FirstN(items, n) == {r \in items : Cardinality({s \in items : s.seq <= r.seq}) <= n}

\* Of several events with one id in a page, the last is kept.
Deduped(items) == {r \in items : \A s \in items : s.id = r.id => s.seq <= r.seq}

\* The query is not a consistent read: it may see any earlier log.
Fetched(upto) ==
    Deduped(FirstN({r \in log : reader.after < r.seq /\ r.seq <= upto}, Limit + 1))

Last(page) == CHOOSE n \in {r.seq : r \in page} : \A r \in page : r.seq <= n

\* The cursor is the last event fetched, not the last one returned.
CursorMutant(fetched) == Last(fetched)
Cursor(fetched) == Last(FirstN(fetched, Limit))

Poll ==
    /\ ~reader.over
    /\ \E upto \in 0 .. seq :
         LET fetched == Fetched(upto)
             more == Cardinality(fetched) > Limit
         IN reader' = [after |-> IF more THEN Cursor(fetched) ELSE reader.after,
                       got |-> reader.got \cup FirstN(fetched, Limit),
                       over |-> ~more]
    /\ UNCHANGED vars

PagesInit == Init /\ reader = Start
PagesNext == (Next /\ UNCHANGED reader) \/ Poll
PagesSpec == PagesInit /\ [][PagesNext]_<<vars, reader>>

-----------------------------------------------------------------------------
\* Following next_cursor passes over no event, however the log grows between two
\* pages and whatever is removed as a duplicate (campaign_service.py:728-731).
ReaderSkipsNothing ==
    \A r \in log : r.seq <= reader.after => \E g \in reader.got : g.id = r.id
==============================================================================
