--------------------------- MODULE MCAdminInstall ---------------------------
EXTENDS AdminInstall, TLC

N(n) == <<"int", n>>
Policy(p) == [sched_policy |-> Word(p)]

\* Sections: valid ones of every kind, and ones with an error.
Io == [io_sched_class |-> Word("idle"), io_sched_priority |-> N(7),
       cpu_affinity |-> Word("2,3"), oom_score_adjust |-> N(-1000),
       timer_slack_ns |-> N(0)]
Locked == [memlock |-> N(16), mlockall |-> Word("yes")]
Fifo == Policy("fifo") @@ [sched_priority |-> N(99), nice |-> N(5)]
            @@ Io @@ Locked
TooHigh == Policy("rr") @@ [sched_priority |-> N(100)]
Deadline == Policy("deadline") @@
    [sched_runtime_ns |-> N(1), sched_deadline_ns |-> N(2),
     sched_period_ns |-> N(2)]
Tangled == Deadline @@ [sched_reset_on_fork |-> N(1)]
Late == [Deadline EXCEPT !.sched_runtime_ns = N(3)]
Shouted == [Deadline EXCEPT !.sched_policy = Word("DEADLINE")]
Uncounted == Policy("rr") @@
    [sched_priority |-> N(1), sched_reset_on_fork |-> Word("true"),
     cpu_affinity |-> Word("2-3-4")]
MCSections == {Fifo, TooHigh, Deadline, Tangled, Late, Shouted, Uncounted}
MCCpuLists == {Word("2,3"), Word("2-3-4"), Word("all")}
MCCountable == {Word("2,3"), Word("all")}

NoOverride == [k \in {} |-> None]
MCEnvirons == {NoOverride, [nice |-> N(-20)]}

\* Readings that fail: none, or all that the report does without.
MCUnreadable == {{}, Readings \ Counted}

\* A sound path, and one below a directory that others may write.
Mine == [owner |-> 0, writable |-> FALSE, accessible |-> TRUE]
Sound == [found |-> TRUE, regular |-> TRUE, exec |-> TRUE, file |-> Mine,
          above |-> {Mine}]
Loose == [Sound EXCEPT !.above = {Mine, [Mine EXCEPT !.writable = TRUE]}]
Absent == [Sound EXCEPT !.found = FALSE]

Generated == [program |-> TRUE, exec |-> Sound, config |-> Sound,
              user |-> "none", uid |-> 7, named |-> TRUE, exists |-> TRUE,
              confirmed |-> FALSE, strict |-> TRUE, enable |-> TRUE,
              start |-> TRUE, dry |-> FALSE]
Packaged == [Generated EXCEPT !.program = FALSE, !.config = Absent,
                              !.user = "other"]
Trial == [Generated EXCEPT !.dry = TRUE]
Unsafe == [Generated EXCEPT !.exec = Loose, !.strict = FALSE]
Relaxed == [Generated EXCEPT !.strict = FALSE, !.enable = FALSE]
AsRoot == [Generated EXCEPT !.uid = 0]
MCCommands == {Generated, Packaged, Trial, Unsafe, Relaxed, AsRoot}
=============================================================================
