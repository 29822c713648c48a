---- MODULE MCToolBatch ----
EXTENDS ToolBatch, TLC

CONSTANTS t1, t2

call(tool, cell) == [tool |-> tool, cell |-> cell]

\* The first thread binds batches of sandbox tools, in one run or in two, or an
\* irreversible tool that is not alone; the second thread a read and a tool
\* that writes outside of the sandbox and has no receipt.
MCPlans ==
    t1 :> { <<call("set_fact", "m"), call("write_sandbox_file", "f1")>>,
            <<call("compress_sandbox_memory", "m"), call("set_fact", "m")>> }
    @@
    t2 :> { <<call("utc_time", "m"), call("write_temp_note", "w")>> }

MCMaxBatches == t1 :> 2 @@ t2 :> 1
====
