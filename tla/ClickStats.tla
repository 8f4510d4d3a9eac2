---------------------------- MODULE ClickStats -----------------------------
(***************************************************************************)
(* The read side of the click pipeline: GetStats of                        *)
(* internal/store/analytics.go over the rows the consumers write.          *)
(***************************************************************************)
EXTENDS ClickConsumer

EventsOf(code) == {e \in Events : CodeOf[e] = code}

\* The rows of click_events with the code; an EventID may have several.
RowsOf(code) == UNION {{e} \X (1..rows[e]) : e \in EventsOf(code)}

\* GetStats: Total adds up the count(*) of every hour, so it is the number of
\* the code's rows.
GetStats(code) == Cardinality(RowsOf(code))

\* The total a user reads never exceeds the clicks on the code that reached
\* the topic, and is exactly their number once the saved offset of the code's
\* partition has caught up with the log.
StatsExact ==
  \A code \in Codes :
    LET clicks == Cardinality({e \in EventsOf(code) : Logged(e)})
        p == PartitionOf[code]
    IN /\ GetStats(code) <= clicks
       /\ ~dropped /\ offsets[p] = Len(log[p]) => GetStats(code) = clicks

=============================================================================
