-------------------------------- MODULE Ledger --------------------------------
(***************************************************************************)
(* What the chain of one election promises: a list of payloads that only    *)
(* ever grows, by one payload at a time that the election's rules allow     *)
(* after those before it. Apply[s, p] is the rules' state after p, Refused   *)
(* when they do not allow p in state s.                                     *)
(***************************************************************************)
EXTENDS Naturals, Sequences

CONSTANTS Payloads, Blank, Apply, Refused

VARIABLES log, rules     \* the payloads, and the rules' state after them

Empty == log = <<>> /\ rules = Blank

Extend(p) ==
  /\ Apply[rules, p] # Refused
  /\ log' = Append(log, p)
  /\ rules' = Apply[rules, p]

LedgerSpec == Empty /\ [][\E p \in Payloads : Extend(p)]_<<log, rules>>

===============================================================================
