------------------------------ MODULE MCDigest ------------------------------
(* Digest on two rows of one cron moment.                                    *)
EXTENDS Digest

CONSTANTS s1, s2, f1, f2

MCMoment    == [r \in DRows |-> "noon"]
MCSinks     == {s1, s2}
MCFlushes   == {f1, f2}
Upset2(f)   == [sinks |-> {s1, s2}, flushes |-> {f1}, upsets |-> f]
MCScenarios == {Upset2({"store"}),
                [sinks |-> {s1}, flushes |-> {f1}, upsets |-> {"swap"}],
                [sinks |-> {s1}, flushes |-> {f1}, upsets |-> {"test"}],
                [sinks |-> {s1}, flushes |-> {f1, f2}, upsets |-> {}]}
MCRetry     == {Upset2({})}

=============================================================================
