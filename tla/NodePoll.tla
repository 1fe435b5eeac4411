------------------------------ MODULE NodePoll ------------------------------
(***************************************************************************)
(* What one poll_node() call of each command makes of the answers it gets: *)
(* the transport's answer (ssh_poll, a remote shell or the local one) and, *)
(* for cpu and mem, the local scheduler's (query_node_state).              *)
(*                                                                         *)
(* A node's data is the set of keys of the dictionary poll_node() builds,  *)
(* with a mark for what its lists hold: every later decision of the        *)
(* program (is this an error row?  does it count as answered?  is there a  *)
(* line to print?) tests for the presence of a key or an entry, never text. *)
(***************************************************************************)

\* The subcommands that fan out over nodes; `jobs` does not.
Command == {"gpu", "cpu", "mem", "net", "stg"}

\* How a transport call ends.  Exit code 0 splits in three, for what the
\* parsers make of the text: output of the documented shape, or not (an
\* [N/A] reading, a warning line mixed in, another tool version), or well
\* formed but without any of what the command wants.
Reply == {"good", "garbled", "blank", "nonzero", "timeout", "oserror"}

\* How `scontrol show node` ends: its fields, exit code 0 but none of the
\* fields, a non-zero exit, or an exception.
SlurmReply == {"fields", "blank", "nonzero", "exception"}

\* The keys a node's dictionary can hold.  "hw" stands for every lscpu or
\* /proc/meminfo field and "slurm" for every requested scontrol field.  Two are
\* marks: "entry", that some list has a GPU, a port, a mount or a target;
\* "unparsed", that there is no such entry but a row that names no target.
Key == {"error", "gpus", "hw", "ports", "netdevs", "mounts", "beegfs",
        "lustre", "slurm", "slurm_status", "slurm_error", "entry", "unparsed"}

\* ssh_poll: every failure mode collapses into one {"error": ...} dictionary.
SshPoll(r) == IF r \in {"nonzero", "timeout", "oserror"} THEN {"error"} ELSE {}

\* What each parser makes of a successful transport's text.
Entries(r)   == IF r = "good" THEN {"entry"} ELSE {}
ParseGpu(r)  == {"gpus"} \cup Entries(r)
ParseCpu(r)  == CASE r = "good"    -> {"hw"}
                  [] r = "garbled" -> {"error"}
                  [] r = "blank"   -> {}
ParseMem(r)  == IF r = "good" THEN {"hw"} ELSE {}
ParseNet(r)  == {"ports", "netdevs"} \cup Entries(r)
ParseStg(r)  == {"mounts", "beegfs", "lustre"} \cup Entries(r)
                \cup IF r = "garbled" THEN {"unparsed"} ELSE {}

\* Mutant of Raises: lscpu's JSON is parsed outside the try block.
RaisesCpuToo(cmd, r) == cmd \in {"gpu", "cpu"} /\ r = "garbled"

\* Only the gpu parser converts fields outside any try block: int(), float()
\* or an index out of range leaves poll_node as an exception.
Raises(cmd, r) == cmd = "gpu" /\ r = "garbled"

\* The dictionary poll_node holds once the transport has answered.
HardwareKeys(cmd, r) ==
  IF SshPoll(r) # {} THEN SshPoll(r)
  ELSE CASE cmd = "gpu" -> ParseGpu(r)
         [] cmd = "cpu" -> ParseCpu(r)
         [] cmd = "mem" -> ParseMem(r)
         [] cmd = "net" -> ParseNet(r)
         [] cmd = "stg" -> ParseStg(r)

\* Mutant of AsksSlurm: every poll asks the scheduler.
AsksSlurmAlways(cmd) == cmd \in Command

\* cpu and mem go on to ask the scheduler, whatever the transport answered.
AsksSlurm(cmd) == cmd \in {"cpu", "mem"}

\* query_node_state: total; each way it fails has a key of its own.
QueryNodeState(s) == CASE s = "fields"    -> {"slurm"}
                       [] s = "blank"     -> {}
                       [] s = "nonzero"   -> {"slurm_status"}
                       [] s = "exception" -> {"slurm_error"}

\* Every (node, data) pair a poll of node n may return: poll_node returns the
\* name it was called with, and the two halves of cpu and mem are merged.
PollResult(cmd, n) ==
  [node : {n},
   keys : {HardwareKeys(cmd, r) \cup s :
             r \in {q \in Reply : ~ Raises(cmd, q)},
             s \in IF AsksSlurm(cmd) THEN {QueryNodeState(t) : t \in SlurmReply}
                                     ELSE {{}}}]

\* Mutants of HasRow: a node is dropped when either side failed; or when the
\* transport did.
HasRowIfBoth(cmd, keys) == {"error", "slurm_error"} \cap keys = {}
HasRowIfReached(cmd, keys) == "error" \notin keys

\* summarize: which nodes get a row, and count in nodes_ok.  cpu and mem drop
\* a node only when both sides failed.
HasRow(cmd, keys) ==
  IF AsksSlurm(cmd) THEN ~ {"error", "slurm_error"} \subseteq keys
                    ELSE "error" \notin keys
=============================================================================
