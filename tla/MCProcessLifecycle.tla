------------------------- MODULE MCProcessLifecycle -------------------------
(* ProcessLifecycle on a small instance. *)
EXTENDS ProcessLifecycle

CONSTANTS a, b, c, j

Entry(name, class, section) ==
    [name |-> name, class |-> class, section |-> section]

MCClasses == {a, b, c}
\* One class by itself, one by its entry point; the file configures the second
\* one twice, under two entry points, and adds a third in between.
MCProgrammatic == <<Entry(NoName, a, "s1"), Entry("beta", b, "s1")>>
MCConfigured == <<Entry("beta", b, "s2"), Entry("gamma", c, "s2"),
                  Entry("bis", b, "s3")>>
MCJobs == {j}
=============================================================================
