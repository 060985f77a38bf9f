---------------------------- MODULE RevisionFile ----------------------------
(***************************************************************************)
(* What a canonical file of a run (plan.md, findings.md, playbook.md)      *)
(* promises the tool calls of one batch: it is a register with a           *)
(* compare-and-swap.  A write_file names the revision it expects and takes *)
(* effect at one instant, when that is the content; a record_playbook adds *)
(* its rule to whatever the content is at that instant.  Nothing is said   *)
(* of locks, processes or the order of the calls.                          *)
(*                                                                         *)
(* The one thing the register cannot promise is about shell commands: they *)
(* write the file without asking anybody, so a write_file or a             *)
(* record_playbook that was under way when a shell wrote may still go by   *)
(* the content that it saw (under), and what the shell wrote is lost.      *)
(***************************************************************************)
EXTENDS Naturals, FiniteSets

CONSTANTS Jobs,      \* the tool calls of the batch
          Rules,     \* what a content is made of: a file is a set of rules
          Absent,    \* the revision "absent": there is no file
          None

VARIABLES args,      \* what each call asks for; fixed
          content,   \* the file
          effect,    \* of each call: "none" yet, "took" or "declined"
          answer,    \* what its caller was told, None before
          under      \* what a write under way saw before a shell wrote, or None

vars == <<args, content, effect, answer, under>>

Contents == {Absent} \cup SUBSET Rules
Answers == {"success", "conflict", "full", "late", "limit", "error", "cancelled",
            "unchanged"}

(* The content with one rule more; a missing file counts as an empty one.  *)
With(text, rule) == (IF text = Absent THEN {} ELSE text) \cup {rule}

(* An answer is true: "success" is said only of a write that took effect   *)
(* and "conflict" only of one that never will.                             *)
Truthful(a, e) == /\ a = "success" => e = "took"
                  /\ a \in {"conflict", "full"} => e = "declined"

Writers == {j \in Jobs : args[j].tool \in {"write", "rule"}}

Init == /\ content \in Contents
        /\ effect = [j \in Jobs |-> "none"]
        /\ answer = [j \in Jobs |-> None]
        /\ under = [j \in Jobs |-> None]

Reply(j) == /\ answer[j] = None
            /\ \E a \in Answers :
                 /\ j \in Writers => Truthful(a, effect'[j])
                 /\ answer' = [answer EXCEPT ![j] = a]

MayReply(j) == UNCHANGED answer \/ Reply(j)

(* The content that a write goes by: the file's, unless a shell wrote      *)
(* while the write was under way.                                          *)
Seen(j) == IF under[j] = None THEN content ELSE under[j]

(* The write takes effect, perhaps after its caller was cancelled.         *)
Take(j) ==
  /\ j \in Writers
  /\ effect[j] = "none"
  /\ \/ /\ args[j].tool = "write"
        /\ Seen(j) = args[j].expected
        /\ content' = args[j].new
     \/ /\ args[j].tool = "rule"
        /\ content' = With(Seen(j), args[j].rule)
  /\ effect' = [effect EXCEPT ![j] = "took"]
  /\ MayReply(j)
  /\ UNCHANGED <<args, under>>

Decline(j) ==
  /\ j \in Writers
  /\ effect[j] = "none"
  /\ effect' = [effect EXCEPT ![j] = "declined"]
  /\ MayReply(j)
  /\ UNCHANGED <<args, content, under>>

JustReply(j) == Reply(j) /\ UNCHANGED <<args, content, effect, under>>

(* A shell writes the file, under some of the writes to come.              *)
Scribble ==
  /\ content' \in Contents
  /\ \E ws \in SUBSET {j \in Writers : effect[j] = "none"} :
       under' = [j \in Jobs |-> IF j \in ws /\ under[j] = None THEN content ELSE under[j]]
  /\ UNCHANGED <<args, effect, answer>>

Next == Scribble \/ \E j \in Jobs : Take(j) \/ Decline(j) \/ JustReply(j)

Spec == Init /\ [][Next]_vars
=============================================================================
