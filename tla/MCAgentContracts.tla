-------------------------- MODULE MCAgentContracts --------------------------
(* Instances of AgentContracts for TLC.                                    *)
EXTENDS AgentContracts

Replication(identity, provider, source, failed, unregistered, pending) ==
  [service |-> "replication", identity |-> identity, provider |-> provider,
   source |-> source, failed |-> failed, unregistered |-> unregistered,
   pending |-> pending]

\* A plain backlog.
MCBacklog == {Replication("match", "pass", "pass", FALSE, FALSE, TRUE)}

\* A backlog with a failed object.
MCFailedBacklog == {Replication("match", "pass", "pass", TRUE, FALSE, TRUE)}

By(op, phase, waived) ==
  [operation |-> op, phase |-> phase, disposition |-> "allow", waived |-> waived]

MCRunDraft == {By("INVOKE_RUN", "future-successor", FALSE)}

\* Proposals in wave C, an execution smuggled into it, the same execution in the
\* phase it belongs to, and a run that claims to need no approval.
MCPolicyDrafts ==
  {By(op, "wave-c", FALSE) :
     op \in {"PROPOSE_RUN", "PROPOSE_CATCH_UP", "NO_ACTION", "INVOKE_VERIFY"}}
  \cup {By("INVOKE_VERIFY", "future-successor", FALSE),
        By("INVOKE_RUN", "future-successor", TRUE)}
MCReconcileDraft == {By("INVOKE_RECONCILE", "future-successor", FALSE)}

\* A PASS with every proof or with one of them; and every other verdict.
MCPassVerdicts ==
  [status : {"pass"}, proven : {AllProofs, {"worker-receipt"}}, mismatch : {FALSE}]
MCVerdicts == MCPassVerdicts \cup
  [status : VerificationStatuses, proven : {{}}, mismatch : BOOLEAN]
=============================================================================
