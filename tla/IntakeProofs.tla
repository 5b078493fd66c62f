---------------------------- MODULE IntakeProofs ----------------------------
(***************************************************************************)
(* Theorems about the two programs that send to the hub's Intake API: the  *)
(* community map's relay (Relay), for any memories, any number of relay    *)
(* loops and any number of faults, with leases that may end early or not;  *)
(* and the public site (Site), for any cases, generations of the feed,     *)
(* submissions, limit and numbers of loads in flight.                      *)
(***************************************************************************)
EXTENDS Relay, Site, TLAPS

(***************************************************************************)
(* Relay                                                                   *)
(***************************************************************************)

USE RelayAssumption

\* What is known of the requests: at most one is waited for by each loop, at the stage and for the memory the
\* loop is at, and an answer says what the hub keeps.
NetInv ==
  /\ \A r \in net : r.by \in Procs => relay[r.by].at = r.kind /\ relay[r.by].mem = r.mem
  /\ \A r, q \in net : r.by \in Procs /\ r.by = q.by => r = q
  /\ \A r \in net :
       /\ r.kind = "upload" => r.mem \in intake
       /\ r.phase = "put" => r.kind = "upload" /\ r.mem \in blob
       /\ r.phase = "answered" => r.mem \in intake /\ (r.kind = "upload" => r.mem \in stored)
       /\ r.phase = "refused" => r.mem \in Refused
  /\ stored \subseteq blob

\* What a loop knows of its memory.
LoopInv ==
  \A p \in Procs :
    /\ relay[p].at # "idle" => row[relay[p].mem] # "none"
    /\ relay[p].at \in {"mark", "unlink", "forget"} => AtHub(relay[p].mem)
    /\ relay[p].at = "fatal" => relay[p].mem \in Refused

\* What the rows of the map say of the hub.
RowInv ==
  \A m \in Memories :
    /\ outbox[m] # "none" => row[m] # "none"
    /\ row[m] = "gone" \/ file[m] = "deleted" \/ outbox[m] = "sent" => AtHub(m)
    /\ row[m] = "there" /\ m \in WithFile => file[m] # "none"
    /\ outbox[m] = "failed" => m \in Refused \/ AtHub(m)

\* The inductive invariant.
IInv == TypeOK /\ NetInv /\ LoopInv /\ RowInv

-----------------------------------------------------------------------------
\* A stage change keeps the type of the loops.
LEMMA GotoType ==
  ASSUME TypeOK, NEW p \in Procs, NEW s \in Stages, relay[p].at # "idle", Goto(p, s)
  PROVE  relay' \in [Procs -> [at : Stages, mem : Memories] \cup {Idle}]
<1>1. relay[p] \in [at : Stages, mem : Memories]
  BY DEF TypeOK, Idle
<1>2. [relay[p] EXCEPT !.at = s] \in [at : Stages, mem : Memories]
  BY <1>1
<1> QED BY <1>2 DEF TypeOK, Goto

\* Answers and abandoned requests are requests.
LEMMA NetTypes ==
  ASSUME TypeOK
  PROVE  /\ \A r \in net, phase \in {"answered", "refused"} : Answer(r, phase) => net' \subseteq Requests
         /\ \A p \in Procs : Abandon(p) => net' \subseteq Requests
<1>1. \A r \in Requests, phase \in {"put", "answered", "refused"} : [r EXCEPT !.phase = phase] \in Requests
  BY DEF Requests
<1>2. \A r \in Requests : [r EXCEPT !.by = None] \in Requests
  BY DEF Requests
<1>3. ASSUME NEW r \in net, NEW phase \in {"answered", "refused"}, Answer(r, phase) PROVE net' \subseteq Requests
  <2>1. [r EXCEPT !.phase = phase] \in Requests
    BY <1>1 DEF TypeOK
  <2> QED BY <1>3, <2>1 DEF TypeOK, Answer
<1>4. ASSUME NEW p \in Procs, Abandon(p) PROVE net' \subseteq Requests
  BY <1>2, <1>4 DEF TypeOK, Abandon
<1> QED BY <1>3, <1>4

\* A loop that is not idle has a memory.
LEMMA LoopMemory ==
  ASSUME TypeOK, NEW p \in Procs, relay[p].at # "idle"
  PROVE  relay[p].mem \in Memories /\ relay[p].at \in Stages
BY DEF TypeOK, Idle

\* Every action keeps every variable in its type.
LEMMA TypeStep == TypeOK /\ [Next]_vars => TypeOK'
<1> SUFFICES ASSUME TypeOK, [Next]_vars PROVE TypeOK'
  OBVIOUS
<1> USE DEF localVars, hubVars
<1>1. ASSUME NEW m \in Memories, StoreFile(m) \/ InsertMemory(m) \/ Enqueue(m) \/ NextTry(m) PROVE TypeOK'
  <2>1. ASSUME StoreFile(m) PROVE TypeOK'
    BY <2>1 DEF TypeOK, StoreFile
  <2>2. ASSUME InsertMemory(m) PROVE TypeOK'
    BY <2>2 DEF TypeOK, InsertMemory
  <2>3. ASSUME Enqueue(m) PROVE TypeOK'
    BY <2>3 DEF TypeOK, Enqueue
  <2>4. ASSUME NextTry(m) PROVE TypeOK'
    BY <2>4 DEF TypeOK, NextTry
  <2> QED BY <1>1, <2>1, <2>2, <2>3, <2>4
<1>2. ASSUME NEW p \in Procs, NEW m \in Memories, Claim(p, m) PROVE TypeOK'
  <2>1. relay' \in [Procs -> [at : Stages, mem : Memories] \cup {Idle}]
    BY <1>2 DEF TypeOK, Claim, Stages
  <2> QED BY <1>2, <2>1 DEF TypeOK, Claim
<1>3. ASSUME NEW p \in Procs, Build(p) PROVE TypeOK'
  <2>1. relay' \in [Procs -> [at : Stages, mem : Memories] \cup {Idle}]
    BY <1>3, GotoType DEF Build, Stages
  <2>2. Request(p, relay[p].mem, "submit") \in Requests
    BY <1>3, LoopMemory DEF Build, Request, Requests
  <2> QED BY <1>3, <2>1, <2>2 DEF TypeOK, Build
<1>4. ASSUME NEW p \in Procs, FileGone(p) PROVE TypeOK'
  <2>1. relay' \in [Procs -> [at : Stages, mem : Memories] \cup {Idle}]
    BY <1>4, GotoType DEF FileGone, Stages
  <2> QED BY <1>4, <2>1 DEF TypeOK, FileGone
<1>5. ASSUME NEW p \in Procs, RowGone(p) PROVE TypeOK'
  BY <1>5, LoopMemory DEF TypeOK, RowGone, Rest
<1>6. ASSUME NEW p \in Procs, Submitted(p) PROVE TypeOK'
  <2>1. PICK r \in net :
          /\ relay[p].at = "submit"
          /\ net' \subseteq net \cup {Request(p, r.mem, "upload")}
          /\ Goto(p, "upload") \/ Goto(p, "mark")
          /\ UNCHANGED <<localVars, hubVars, faults>>
    BY <1>6 DEF Submitted
  <2>2. relay' \in [Procs -> [at : Stages, mem : Memories] \cup {Idle}]
    BY <2>1, GotoType DEF Stages
  <2>3. Request(p, r.mem, "upload") \in Requests
    BY <2>1 DEF TypeOK, Request, Requests
  <2> QED BY <2>1, <2>2, <2>3 DEF TypeOK
<1>7. ASSUME NEW p \in Procs, Uploaded(p) PROVE TypeOK'
  <2>1. relay' \in [Procs -> [at : Stages, mem : Memories] \cup {Idle}]
    BY <1>7, GotoType DEF Uploaded, Stages
  <2> QED BY <1>7, <2>1 DEF TypeOK, Uploaded
<1>8. ASSUME NEW p \in Procs, Rejected(p) PROVE TypeOK'
  <2>1. relay' \in [Procs -> [at : Stages, mem : Memories] \cup {Idle}]
    BY <1>8, GotoType DEF Rejected, Stages
  <2> QED BY <1>8, <2>1 DEF TypeOK, Rejected
<1>9. ASSUME NEW p \in Procs, MarkSent(p) PROVE TypeOK'
  <2>1. relay' \in [Procs -> [at : Stages, mem : Memories] \cup {Idle}]
    <3>1. CASE Rest(p)
      BY <3>1 DEF TypeOK, Rest
    <3>2. CASE Goto(p, "unlink") \/ Goto(p, "forget")
      BY <1>9, <3>2, GotoType DEF MarkSent, Stages
    <3> QED BY <1>9, <3>1, <3>2, LoopMemory DEF MarkSent
  <2> QED BY <1>9, <2>1 DEF TypeOK, MarkSent
<1>10. ASSUME NEW p \in Procs, Unlink(p) PROVE TypeOK'
  <2>1. relay' \in [Procs -> [at : Stages, mem : Memories] \cup {Idle}]
    BY <1>10, GotoType DEF Unlink, Stages
  <2> QED BY <1>10, <2>1 DEF TypeOK, Unlink
<1>11. ASSUME NEW p \in Procs, Forget(p) PROVE TypeOK'
  BY <1>11 DEF TypeOK, Forget, Rest
<1>12. ASSUME NEW p \in Procs, Catch(p) PROVE TypeOK'
  BY <1>12 DEF TypeOK, Catch, Rest
<1>13. ASSUME NEW r \in net, HubSubmit(r) \/ HubDuplicate(r) \/ HubRefuse(r) PROVE TypeOK'
  <2>1. net' \subseteq Requests
    BY <1>13, NetTypes DEF HubSubmit, HubDuplicate, HubRefuse
  <2>2. r.mem \in Memories
    BY DEF TypeOK, Requests
  <2> QED BY <1>13, <2>1, <2>2 DEF TypeOK, HubSubmit, HubDuplicate, HubRefuse
<1>14. ASSUME NEW r \in net, HubPut(r) PROVE TypeOK'
  <2>1. r.mem \in Memories /\ [r EXCEPT !.phase = "put"] \in Requests
    BY DEF TypeOK, Requests
  <2> QED BY <1>14, <2>1 DEF TypeOK, HubPut
<1>15. ASSUME NEW r \in net, HubStore(r) PROVE TypeOK'
  <2>1. net' \subseteq Requests
    BY <1>15, NetTypes DEF HubStore
  <2>2. r.mem \in Memories
    BY DEF TypeOK, Requests
  <2> QED BY <1>15, <2>1, <2>2 DEF TypeOK, HubStore
<1>16. ASSUME NEW r \in net, HubDrop(r) PROVE TypeOK'
  BY <1>16 DEF TypeOK, HubDrop
<1>17. ASSUME NEW p \in Procs, Timeout(p) PROVE TypeOK'
  <2>1. relay' \in [Procs -> [at : Stages, mem : Memories] \cup {Idle}]
    BY <1>17, GotoType DEF Timeout, Stages
  <2>2. net' \subseteq Requests
    BY <1>17, NetTypes DEF Timeout
  <2> QED BY <1>17, <2>1, <2>2 DEF TypeOK, Timeout, Fault
<1>18. ASSUME NEW p \in Procs, StatementFails(p) PROVE TypeOK'
  <2>1. relay' \in [Procs -> [at : Stages, mem : Memories] \cup {Idle}]
    BY <1>18, GotoType DEF StatementFails, Stages
  <2> QED BY <1>18, <2>1 DEF TypeOK, StatementFails, Fault
<1>19. ASSUME NEW p \in Procs, UnlinkFails(p) PROVE TypeOK'
  <2>1. relay' \in [Procs -> [at : Stages, mem : Memories] \cup {Idle}]
    BY <1>19, GotoType DEF UnlinkFails, Stages
  <2> QED BY <1>19, <2>1 DEF TypeOK, UnlinkFails, Fault
<1>20. ASSUME NEW p \in Procs, Die(p) PROVE TypeOK'
  <2>1. net' \subseteq Requests
    BY <1>20, NetTypes DEF Die
  <2> QED BY <1>20, <2>1 DEF TypeOK, Die, Fault, Rest
<1>21. CASE UNCHANGED vars
  BY <1>21 DEF TypeOK, vars
<1> QED
  BY <1>1, <1>2, <1>3, <1>4, <1>5, <1>6, <1>7, <1>8, <1>9, <1>10, <1>11, <1>12, <1>13, <1>14, <1>15, <1>16,
     <1>17, <1>18, <1>19, <1>20, <1>21 DEF Next, RelayStep, HubStep

\* Whatever happens, every variable has its type and every state and stage is one the code knows.
THEOREM RelayTypeCorrect == Spec => []TypeOK
<1>1. Init => TypeOK
  BY DEF Init, TypeOK
<1> QED BY <1>1, TypeStep, PTL DEF Spec

-----------------------------------------------------------------------------
\* What is never undone: the hub keeps what it has, and a row that was there does not become one that never was.
Grows ==
  \A m \in Memories : (AtHub(m) => AtHub(m)') /\ (row[m] # "none" => row'[m] # "none")

\* Nothing is ever taken from the hub, and no row goes back to before it was inserted.
LEMMA GrowsStep == TypeOK /\ [Next]_vars => Grows
<1> SUFFICES ASSUME TypeOK, [Next]_vars PROVE Grows
  OBVIOUS
<1>1. intake \subseteq intake' /\ blob \subseteq blob' /\ stored \subseteq stored'
  BY DEF Next, RelayStep, HubStep, StoreFile, InsertMemory, Enqueue, NextTry, Claim, Build, FileGone, RowGone,
         Submitted, Uploaded, Rejected, MarkSent, Unlink, Forget, Catch, HubSubmit, HubDuplicate, HubRefuse,
         HubPut, HubStore, HubDrop, Timeout, StatementFails, UnlinkFails, Die, vars, hubVars
<1>2. \/ row' = row
      \/ \E m \in Memories \cup {relay[p].mem : p \in Procs}, s \in {"there", "gone"} : row' = [row EXCEPT ![m] = s]
  BY DEF Next, RelayStep, HubStep, StoreFile, InsertMemory, Enqueue, NextTry, Claim, Build, FileGone, RowGone,
         Submitted, Uploaded, Rejected, MarkSent, Unlink, Forget, Catch, HubSubmit, HubDuplicate, HubRefuse,
         HubPut, HubStore, HubDrop, Timeout, StatementFails, UnlinkFails, Die, vars, localVars
<1>3. \A m \in Memories : row[m] # "none" => row'[m] # "none"
  BY <1>2 DEF TypeOK
<1> QED BY <1>1, <1>3 DEF Grows, AtHub

\* What the hub has is never taken from it by a relay, a second attempt or a fault, and a memory's row never goes back
\* to before it was inserted (backend/hub.js, intake.py): what a loop knows of the hub is true however late it acts.
THEOREM HubKeepsWhatItHas == Spec => [][Grows]_vars
<1>1. TypeOK /\ [Next]_vars => Grows
  BY GrowsStep
<1> QED BY <1>1, RelayTypeCorrect, PTL DEF Spec

\* A step of a loop that waits for no answer, and sends none, leaves what is known of the requests.
LEMMA NetUntouched ==
  ASSUME TypeOK, NetInv, NEW p \in Procs, relay[p].at \notin {"submit", "upload"},
         \A q \in Procs \ {p} : relay'[q] = relay[q], UNCHANGED <<net, hubVars>>
  PROVE  NetInv'
<1>1. \A r \in net : r.by # p
  BY DEF NetInv, TypeOK, Requests
<1> QED BY <1>1 DEF NetInv, hubVars

\* When a loop stops waiting, what is known of the requests is known of those that remain.
LEMMA NetAbandoned ==
  ASSUME TypeOK, NetInv, NEW p \in Procs, Abandon(p),
         \A q \in Procs \ {p} : relay'[q] = relay[q], UNCHANGED hubVars
  PROVE  NetInv'
<1>1. \A r \in net' : r.by # p
  BY DEF Abandon, TypeOK, Requests
<1>2. \A r \in net' : r.by \in Procs => r \in net
  BY DEF Abandon, TypeOK, Requests
<1>3. \A r \in net' : \E q \in net : r.kind = q.kind /\ r.mem = q.mem /\ r.phase = q.phase
  BY DEF Abandon, TypeOK, Requests
<1>4. /\ \A r \in net' : r.by \in Procs => relay'[r.by].at = r.kind /\ relay'[r.by].mem = r.mem
      /\ \A r, q \in net' : r.by \in Procs /\ r.by = q.by => r = q
  BY <1>1, <1>2 DEF NetInv
<1>5. \A r \in net' :
        /\ r.kind = "upload" => r.mem \in intake
        /\ r.phase = "put" => r.kind = "upload" /\ r.mem \in blob
        /\ r.phase = "answered" => r.mem \in intake /\ (r.kind = "upload" => r.mem \in stored)
        /\ r.phase = "refused" => r.mem \in Refused
  BY <1>3 DEF NetInv
<1> QED BY <1>4, <1>5 DEF NetInv, hubVars

\* An answer that is true of what the hub has by now keeps what is known of the requests.
LEMMA NetAnswered ==
  ASSUME TypeOK, NetInv, NEW r \in net, NEW phase \in {"put", "answered", "refused"},
         net' \subseteq (net \ {r}) \cup {[r EXCEPT !.phase = phase]}, UNCHANGED relay,
         intake \subseteq intake', blob \subseteq blob', stored \subseteq stored', stored' \subseteq blob',
         phase = "put" => r.kind = "upload" /\ r.mem \in blob',
         phase = "answered" => r.mem \in intake' /\ (r.kind = "upload" => r.mem \in stored'),
         phase = "refused" => r.mem \in Refused
  PROVE  NetInv'
<1> DEFINE a == [r EXCEPT !.phase = phase]
<1>1. r \in Requests /\ a.kind = r.kind /\ a.mem = r.mem /\ a.by = r.by /\ a.phase = phase
  BY DEF TypeOK, Requests
<1> HIDE DEF a
<1>2. net' \subseteq (net \ {r}) \cup {a}
  BY DEF a
<1>3. \A q \in net' : q.by \in Procs => relay'[q.by].at = q.kind /\ relay'[q.by].mem = q.mem
  BY <1>1, <1>2 DEF NetInv
<1>4. \A s, q \in net' : s.by \in Procs /\ s.by = q.by => s = q
  BY <1>1, <1>2 DEF NetInv
<1>5. \A q \in net' :
        /\ q.kind = "upload" => q.mem \in intake'
        /\ q.phase = "put" => q.kind = "upload" /\ q.mem \in blob'
        /\ q.phase = "answered" => q.mem \in intake' /\ (q.kind = "upload" => q.mem \in stored')
        /\ q.phase = "refused" => q.mem \in Refused
  BY <1>1, <1>2 DEF NetInv
<1> QED BY <1>3, <1>4, <1>5 DEF NetInv

\* What is known of the requests stays true.
LEMMA NetStep == TypeOK /\ NetInv /\ [Next]_vars => NetInv'
<1> SUFFICES ASSUME TypeOK, NetInv, [Next]_vars PROVE NetInv'
  OBVIOUS
<1> USE DEF hubVars
<1>1. ASSUME NEW m \in Memories, StoreFile(m) \/ InsertMemory(m) \/ Enqueue(m) \/ NextTry(m) PROVE NetInv'
  BY <1>1 DEF NetInv, StoreFile, InsertMemory, Enqueue, NextTry
<1>2. ASSUME NEW p \in Procs,
             \/ \E m \in Memories : Claim(p, m)
             \/ FileGone(p) \/ RowGone(p) \/ MarkSent(p) \/ Unlink(p) \/ Forget(p) \/ Catch(p)
             \/ StatementFails(p) \/ UnlinkFails(p)
      PROVE  NetInv'
  <2>1. /\ relay[p].at \notin {"submit", "upload"}
        /\ \A q \in Procs \ {p} : relay'[q] = relay[q]
        /\ UNCHANGED <<net, hubVars>>
    BY <1>2 DEF TypeOK, Claim, FileGone, RowGone, MarkSent, Unlink, Forget, Catch, StatementFails, UnlinkFails,
                Goto, Rest
  <2> QED BY <2>1, NetUntouched
<1>3. ASSUME NEW p \in Procs, Timeout(p) \/ Die(p) PROVE NetInv'
  <2>1. Abandon(p) /\ (\A q \in Procs \ {p} : relay'[q] = relay[q]) /\ UNCHANGED hubVars
    BY <1>3 DEF TypeOK, Timeout, Die, Goto, Rest
  <2> QED BY <2>1, NetAbandoned
<1>4. ASSUME NEW p \in Procs, Build(p) PROVE NetInv'
  <2> DEFINE a == Request(p, relay[p].mem, "submit")
  <2>1. a.by = p /\ a.kind = "submit" /\ a.mem = relay[p].mem /\ a.phase = "sent"
    BY DEF Request
  <2>2. \A r \in net : r.by # p
    BY <1>4 DEF Build, NetInv, TypeOK, Requests
  <2>3. /\ relay'[p].at = "submit" /\ relay'[p].mem = relay[p].mem
        /\ \A q \in Procs \ {p} : relay'[q] = relay[q]
    BY <1>4, LoopMemory DEF Build, Goto, TypeOK, Idle
  <2>4. net' = net \cup {a} /\ UNCHANGED hubVars
    BY <1>4 DEF Build
  <2> HIDE DEF a
  <2> QED BY <2>1, <2>2, <2>3, <2>4 DEF NetInv
<1>5. ASSUME NEW p \in Procs, Submitted(p) PROVE NetInv'
  <2>1. PICK r \in net :
          /\ relay[p].at = "submit" /\ r.by = p /\ r.phase = "answered"
          /\ IF r.mem \in WithFile
               THEN net' = (net \ {r}) \cup {Request(p, r.mem, "upload")} /\ Goto(p, "upload")
               ELSE net' = net \ {r} /\ Goto(p, "mark")
          /\ UNCHANGED <<localVars, hubVars, faults>>
    BY <1>5 DEF Submitted
  <2> DEFINE a == Request(p, r.mem, "upload")
  <2>2. a.by = p /\ a.kind = "upload" /\ a.mem = r.mem /\ a.phase = "sent"
    BY DEF Request
  <2>3. r.mem = relay[p].mem /\ r.mem \in intake
    BY <2>1 DEF NetInv
  <2>4. \A q \in net \ {r} : q.by # p
    BY <2>1 DEF NetInv
  <2>5. /\ relay'[p].mem = relay[p].mem
        /\ relay'[p].at = IF r.mem \in WithFile THEN "upload" ELSE "mark"
        /\ \A q \in Procs \ {p} : relay'[q] = relay[q]
    BY <2>1, LoopMemory DEF Goto, TypeOK, Idle
  <2>6. net' \subseteq (net \ {r}) \cup (IF r.mem \in WithFile THEN {a} ELSE {})
    BY <2>1
  <2>7. UNCHANGED hubVars
    BY <2>1
  <2> HIDE DEF a
  <2> QED BY <2>2, <2>3, <2>4, <2>5, <2>6, <2>7 DEF NetInv
<1>6. ASSUME NEW p \in Procs, Uploaded(p) \/ Rejected(p) PROVE NetInv'
  <2>1. PICK r \in net : r.by = p /\ net' = net \ {r} /\ UNCHANGED <<localVars, hubVars, faults>>
    BY <1>6 DEF Uploaded, Rejected
  <2>2. \A q \in net' : q.by # p
    BY <2>1 DEF NetInv
  <2>3. \A q \in Procs \ {p} : relay'[q] = relay[q]
    BY <1>6 DEF Uploaded, Rejected, Goto, TypeOK
  <2> QED BY <2>1, <2>2, <2>3 DEF NetInv
<1>7. ASSUME NEW r \in net, HubSubmit(r) PROVE NetInv'
  <2>1. r.kind = "submit" /\ blob' = blob /\ stored' = stored /\ UNCHANGED relay
    BY <1>7 DEF HubSubmit
  <2>2. CASE r.mem \in RefusedText
    <3>1. /\ net' \subseteq (net \ {r}) \cup {[r EXCEPT !.phase = "refused"]}
          /\ intake' = intake
      BY <1>7, <2>2 DEF HubSubmit, Answer
    <3>2. r.mem \in Refused
      BY <2>2 DEF Refused
    <3> QED BY <2>1, <3>1, <3>2, NetAnswered DEF NetInv
  <2>3. CASE r.mem \notin RefusedText
    <3>1. /\ net' \subseteq (net \ {r}) \cup {[r EXCEPT !.phase = "answered"]}
          /\ intake' = intake \cup {r.mem}
      BY <1>7, <2>3 DEF HubSubmit, Answer
    <3> QED BY <2>1, <3>1, NetAnswered DEF NetInv
  <2> QED BY <2>2, <2>3
<1>8. ASSUME NEW r \in net, HubDuplicate(r) PROVE NetInv'
  <2>1. /\ net' \subseteq (net \ {r}) \cup {[r EXCEPT !.phase = "answered"]}
        /\ r.kind = "upload" /\ r.mem \in stored /\ UNCHANGED <<relay, hubVars>>
    BY <1>8 DEF HubDuplicate, Answer
  <2> QED BY <2>1, NetAnswered DEF NetInv
<1>9. ASSUME NEW r \in net, HubRefuse(r) PROVE NetInv'
  <2>1. /\ net' \subseteq (net \ {r}) \cup {[r EXCEPT !.phase = "refused"]}
        /\ r.mem \in Refused /\ UNCHANGED <<relay, hubVars>>
    BY <1>9 DEF HubRefuse, Answer, Refused
  <2> QED BY <2>1, NetAnswered DEF NetInv
<1>10. ASSUME NEW r \in net, HubPut(r) PROVE NetInv'
  <2>1. /\ net' \subseteq (net \ {r}) \cup {[r EXCEPT !.phase = "put"]}
        /\ r.kind = "upload" /\ blob' = blob \cup {r.mem}
        /\ intake' = intake /\ stored' = stored /\ UNCHANGED relay
    BY <1>10 DEF HubPut
  <2> QED BY <2>1, NetAnswered DEF NetInv
<1>11. ASSUME NEW r \in net, HubStore(r) PROVE NetInv'
  <2>1. /\ net' \subseteq (net \ {r}) \cup {[r EXCEPT !.phase = "answered"]}
        /\ r.phase = "put" /\ stored' = stored \cup {r.mem}
        /\ intake' = intake /\ blob' = blob /\ UNCHANGED relay
    BY <1>11 DEF HubStore, Answer
  <2>2. r.kind = "upload" /\ r.mem \in blob /\ r.mem \in intake
    BY <2>1 DEF NetInv
  <2> QED BY <2>1, <2>2, NetAnswered DEF NetInv
<1>12. ASSUME NEW r \in net, HubDrop(r) PROVE NetInv'
  BY <1>12 DEF HubDrop, NetInv
<1>13. CASE UNCHANGED vars
  BY <1>13 DEF NetInv, vars
<1> QED
  BY <1>1, <1>2, <1>3, <1>4, <1>5, <1>6, <1>7, <1>8, <1>9, <1>10, <1>11, <1>12, <1>13 DEF Next, RelayStep, HubStep

-----------------------------------------------------------------------------
\* A step that leaves the other loops alone keeps what they know.
LEMMA OthersKnow ==
  ASSUME TypeOK, LoopInv, Grows, NEW p \in Procs, \A q \in Procs \ {p} : relay'[q] = relay[q],
         relay'[p].at # "idle" => relay'[p].mem \in Memories /\ row'[relay'[p].mem] # "none",
         relay'[p].at \in {"mark", "unlink", "forget"} => AtHub(relay[p].mem)',
         relay'[p].at = "fatal" => relay'[p].mem \in Refused
  PROVE  LoopInv'
<1>1. ASSUME NEW q \in Procs \ {p}
      PROVE  /\ relay'[q].at # "idle" => row'[relay'[q].mem] # "none"
             /\ relay'[q].at \in {"mark", "unlink", "forget"} => AtHub(relay[q].mem)'
             /\ relay'[q].at = "fatal" => relay'[q].mem \in Refused
  BY <1>1, LoopMemory DEF LoopInv, Grows
<1> QED BY <1>1 DEF LoopInv, Refused

\* A loop that moves on with its memory, knowing what its new stage asks for.
LEMMA LoopMoves ==
  ASSUME TypeOK, LoopInv, Grows, NEW p \in Procs, NEW s \in Stages, relay[p].at # "idle", Goto(p, s),
         s \in {"mark", "unlink", "forget"} => AtHub(relay[p].mem),
         s = "fatal" => relay[p].mem \in Refused
  PROVE  LoopInv'
<1>1. relay[p].mem \in Memories
  BY LoopMemory
<1>2. /\ relay'[p].at = s /\ relay'[p].mem = relay[p].mem
      /\ \A q \in Procs \ {p} : relay'[q] = relay[q]
  BY LoopMemory DEF Goto, TypeOK, Idle
<1>3. row'[relay[p].mem] # "none"
  BY <1>1 DEF LoopInv, Grows
<1>4. AtHub(relay[p].mem) => AtHub(relay[p].mem)'
  BY <1>1, <1>2 DEF Grows, AtHub
<1> QED BY <1>1, <1>2, <1>3, <1>4, OthersKnow

\* A loop that is done with its memory.
LEMMA LoopRests ==
  ASSUME TypeOK, LoopInv, Grows, NEW p \in Procs, Rest(p)
  PROVE  LoopInv'
<1>1. relay'[p].at = "idle" /\ \A q \in Procs \ {p} : relay'[q] = relay[q]
  BY DEF Rest, TypeOK, Idle
<1> QED BY <1>1, OthersKnow

\* What the loops know stays true.
LEMMA LoopStep == IInv /\ [Next]_vars => LoopInv'
<1> SUFFICES ASSUME IInv, [Next]_vars PROVE LoopInv'
  OBVIOUS
<1> USE DEF hubVars, localVars
<1>0. TypeOK /\ NetInv /\ LoopInv /\ RowInv /\ Grows
  BY GrowsStep DEF IInv
<1>1. CASE UNCHANGED relay
  <2>1. ASSUME NEW q \in Procs
        PROVE  /\ relay'[q].at # "idle" => row'[relay'[q].mem] # "none"
               /\ relay'[q].at \in {"mark", "unlink", "forget"} => AtHub(relay[q].mem)'
               /\ relay'[q].at = "fatal" => relay'[q].mem \in Refused
    BY <1>0, <1>1, LoopMemory DEF LoopInv, Grows
  <2> QED BY <2>1 DEF LoopInv, Refused
<1>2. ASSUME NEW p \in Procs, NEW m \in Memories, Claim(p, m) PROVE LoopInv'
  <2>1. row[m] # "none"
    BY <1>0, <1>2 DEF Claim, RowInv
  <2>2. /\ relay'[p] = [at |-> "build", mem |-> m]
        /\ \A q \in Procs \ {p} : relay'[q] = relay[q]
    BY <1>0, <1>2 DEF Claim, TypeOK
  <2>3. row'[m] # "none"
    BY <1>0, <2>1 DEF Grows
  <2> QED BY <1>0, <2>2, <2>3, OthersKnow
<1>3. ASSUME NEW p \in Procs,
             \/ Build(p) /\ Goto(p, "submit")
             \/ (FileGone(p) \/ Timeout(p) \/ StatementFails(p)) /\ Goto(p, "retry")
      PROVE  LoopInv'
  <2>1. relay[p].at # "idle"
    BY <1>3 DEF Build, FileGone, Timeout, StatementFails
  <2> QED BY <1>0, <1>3, <2>1, LoopMoves DEF Stages
<1>4. ASSUME NEW p \in Procs, RowGone(p) \/ Forget(p) \/ Catch(p) \/ Die(p) PROVE LoopInv'
  BY <1>0, <1>4, LoopRests DEF RowGone, Forget, Catch, Die
<1>5. ASSUME NEW p \in Procs, Submitted(p) PROVE LoopInv'
  <2>1. PICK r \in net :
          /\ relay[p].at = "submit" /\ r.by = p /\ r.phase = "answered"
          /\ \/ r.mem \in WithFile /\ Goto(p, "upload")
             \/ r.mem \notin WithFile /\ Goto(p, "mark")
    BY <1>5 DEF Submitted
  <2>2. r.mem = relay[p].mem /\ r.mem \in intake
    BY <1>0, <2>1 DEF NetInv
  <2>3. r.mem \notin WithFile => AtHub(relay[p].mem)
    BY <2>2 DEF AtHub
  <2> QED BY <1>0, <2>1, <2>2, <2>3, LoopMoves DEF Stages
<1>6. ASSUME NEW p \in Procs, Uploaded(p) PROVE LoopInv'
  <2>1. PICK r \in net : relay[p].at = "upload" /\ r.by = p /\ r.phase = "answered" /\ Goto(p, "mark")
    BY <1>6 DEF Uploaded
  <2>2. r.mem = relay[p].mem /\ r.kind = "upload"
    BY <1>0, <2>1 DEF NetInv
  <2>3. AtHub(relay[p].mem)
    BY <1>0, <2>1, <2>2 DEF NetInv, AtHub
  <2> QED BY <1>0, <2>1, <2>3, LoopMoves DEF Stages
<1>7. ASSUME NEW p \in Procs, Rejected(p) PROVE LoopInv'
  <2>1. PICK r \in net :
          relay[p].at \in {"submit", "upload"} /\ r.by = p /\ r.phase = "refused" /\ Goto(p, "fatal")
    BY <1>7 DEF Rejected
  <2>2. relay[p].mem \in Refused
    BY <1>0, <2>1 DEF NetInv
  <2> QED BY <1>0, <2>1, <2>2, LoopMoves DEF Stages
<1>8. ASSUME NEW p \in Procs, MarkSent(p) \/ Unlink(p) \/ UnlinkFails(p) PROVE LoopInv'
  <2>1. /\ relay[p].at \in {"mark", "unlink"}
        /\ Rest(p) \/ Goto(p, "unlink") \/ Goto(p, "forget")
    BY <1>8 DEF MarkSent, Unlink, UnlinkFails
  <2>2. AtHub(relay[p].mem)
    BY <1>0, <2>1 DEF LoopInv
  <2> QED BY <1>0, <2>1, <2>2, LoopMoves, LoopRests DEF Stages
<1>9. \/ UNCHANGED relay
      \/ \E p \in Procs :
           \/ \E m \in Memories : Claim(p, m)
           \/ Build(p) /\ Goto(p, "submit")
           \/ (FileGone(p) \/ Timeout(p) \/ StatementFails(p)) /\ Goto(p, "retry")
           \/ RowGone(p) \/ Forget(p) \/ Catch(p) \/ Die(p)
           \/ Submitted(p) \/ Uploaded(p) \/ Rejected(p)
           \/ MarkSent(p) \/ Unlink(p) \/ UnlinkFails(p)
  <2>1. ASSUME NEW m \in Memories, StoreFile(m) \/ InsertMemory(m) \/ Enqueue(m) \/ NextTry(m)
        PROVE  UNCHANGED relay
    BY <2>1 DEF StoreFile, InsertMemory, Enqueue, NextTry
  <2>2. ASSUME NEW r \in net, HubStep(r) \/ HubDrop(r) PROVE UNCHANGED relay
    BY <2>2 DEF HubStep, HubSubmit, HubDuplicate, HubRefuse, HubPut, HubStore, HubDrop
  <2>3. ASSUME NEW p \in Procs PROVE /\ Build(p) => Goto(p, "submit")
                                     /\ FileGone(p) \/ Timeout(p) \/ StatementFails(p) => Goto(p, "retry")
    BY DEF Build, FileGone, Timeout, StatementFails
  <2>4. UNCHANGED vars => UNCHANGED relay
    BY DEF vars
  <2> QED BY <2>1, <2>2, <2>3, <2>4 DEF Next, RelayStep
<1> QED BY <1>1, <1>2, <1>3, <1>4, <1>5, <1>6, <1>7, <1>8, <1>9

-----------------------------------------------------------------------------
\* How the rows of a memory may change in a step, seen from what the hub has and what the hub refuses.
RowsChange(m) ==
  /\ \/ row'[m] = row[m]
     \/ row'[m] = "there" /\ row[m] = "none" /\ (m \in WithFile => file[m] = "there")
     \/ row'[m] = "gone" /\ row[m] # "none" /\ AtHub(m)
  /\ \/ file'[m] \in {file[m], "there"}
     \/ file'[m] = "deleted" /\ AtHub(m)
  /\ \/ outbox'[m] = outbox[m]
     \/ outbox'[m] = "pending" /\ row'[m] # "none"
     \/ outbox'[m] \in {"sent", "failed"} /\ row[m] # "none" /\ AtHub(m)
     \/ outbox'[m] = "failed" /\ row[m] # "none" /\ m \in Refused

\* Such a change keeps what the rows say.
LEMMA RowsOfOne ==
  ASSUME TypeOK, RowInv, Grows, NEW m \in Memories, RowsChange(m)
  PROVE  /\ outbox'[m] # "none" => row'[m] # "none"
         /\ row'[m] = "gone" \/ file'[m] = "deleted" \/ outbox'[m] = "sent" => AtHub(m)'
         /\ row'[m] = "there" /\ m \in WithFile => file'[m] # "none"
         /\ outbox'[m] = "failed" => m \in Refused \/ AtHub(m)'
<1>1. outbox'[m] # "none" => row'[m] # "none"
  BY DEF RowInv, Grows, RowsChange
<1>2. row'[m] = "gone" \/ file'[m] = "deleted" \/ outbox'[m] = "sent" => AtHub(m)'
  BY DEF RowInv, Grows, RowsChange
<1>3. row'[m] = "there" /\ m \in WithFile => file'[m] # "none"
  BY DEF RowInv, RowsChange
<1>4. outbox'[m] = "failed" => m \in Refused \/ AtHub(m)'
  BY DEF RowInv, Grows, RowsChange
<1> QED BY <1>1, <1>2, <1>3, <1>4

\* What the rows say stays true.
LEMMA RowStep == IInv /\ [Next]_vars => RowInv'
<1> SUFFICES ASSUME IInv, [Next]_vars PROVE RowInv'
  OBVIOUS
<1>0. TypeOK /\ NetInv /\ LoopInv /\ RowInv /\ Grows
  BY GrowsStep DEF IInv
<1> SUFFICES ASSUME NEW m \in Memories PROVE RowsChange(m)
  BY <1>0, RowsOfOne DEF RowInv, Refused
<1> USE DEF localVars, RowsChange
<1>1. CASE UNCHANGED <<row, file, outbox>>
  BY <1>1
<1>2. ASSUME NEW n \in Memories, StoreFile(n) PROVE RowsChange(m)
  BY <1>0, <1>2 DEF StoreFile, TypeOK
<1>3. ASSUME NEW n \in Memories, InsertMemory(n) PROVE RowsChange(m)
  BY <1>0, <1>3 DEF InsertMemory, TypeOK
<1>4. ASSUME NEW n \in Memories, Enqueue(n) PROVE RowsChange(m)
  BY <1>0, <1>4 DEF Enqueue, TypeOK
<1>5. ASSUME NEW p \in Procs, RowGone(p) PROVE RowsChange(m)
  <2>1. row[relay[p].mem] = "gone" /\ relay[p].mem \in Memories
    BY <1>0, <1>5, LoopMemory DEF RowGone, LoopInv, TypeOK
  <2>2. AtHub(relay[p].mem)
    BY <1>0, <2>1 DEF RowInv
  <2> QED BY <1>0, <1>5, <2>1, <2>2 DEF RowGone, TypeOK
<1>6. ASSUME NEW p \in Procs, MarkSent(p) \/ Unlink(p) \/ Forget(p) PROVE RowsChange(m)
  <2>1. AtHub(relay[p].mem) /\ row[relay[p].mem] # "none"
    BY <1>0, <1>6 DEF LoopInv, MarkSent, Unlink, Forget
  <2>2. CASE MarkSent(p)
    BY <1>0, <2>1, <2>2 DEF MarkSent, TypeOK
  <2>3. CASE Unlink(p)
    BY <1>0, <2>1, <2>3 DEF Unlink, TypeOK
  <2>4. CASE Forget(p)
    BY <1>0, <2>1, <2>4 DEF Forget, TypeOK
  <2> QED BY <1>6, <2>2, <2>3, <2>4
<1>7. ASSUME NEW p \in Procs, Catch(p) PROVE RowsChange(m)
  <2>1. row[relay[p].mem] # "none" /\ (relay[p].at = "fatal" => relay[p].mem \in Refused)
    BY <1>0, <1>7 DEF LoopInv, Catch
  <2> QED BY <1>0, <1>7, <2>1 DEF Catch, TypeOK
<1>8. ASSUME NEW p \in Procs, StatementFails(p) PROVE RowsChange(m)
  <2>1. row[relay[p].mem] # "none" /\ (relay[p].at \in {"mark", "forget"} => AtHub(relay[p].mem))
    BY <1>0, <1>8 DEF LoopInv, StatementFails
  <2> QED BY <1>0, <1>8, <2>1 DEF StatementFails, TypeOK
<1>9. ASSUME NEW n \in Memories, NextTry(n) PROVE UNCHANGED <<row, file, outbox>>
  BY <1>9 DEF NextTry
<1>10. ASSUME NEW p \in Procs,
              \/ \E n \in Memories : Claim(p, n)
              \/ Build(p) \/ FileGone(p) \/ Submitted(p) \/ Uploaded(p) \/ Rejected(p)
              \/ Timeout(p) \/ UnlinkFails(p) \/ Die(p)
       PROVE  UNCHANGED <<row, file, outbox>>
  BY <1>10 DEF Claim, Build, FileGone, Submitted, Uploaded, Rejected, Timeout, UnlinkFails, Die
<1>11. ASSUME NEW r \in net, HubStep(r) \/ HubDrop(r) PROVE UNCHANGED <<row, file, outbox>>
  BY <1>11 DEF HubStep, HubSubmit, HubDuplicate, HubRefuse, HubPut, HubStore, HubDrop
<1>12. UNCHANGED vars => UNCHANGED <<row, file, outbox>>
  BY DEF vars
<1> QED
  BY <1>1, <1>2, <1>3, <1>4, <1>5, <1>6, <1>7, <1>8, <1>9, <1>10, <1>11, <1>12 DEF Next, RelayStep

-----------------------------------------------------------------------------
\* The inductive invariant holds in every state.
LEMMA Inductive == Spec => []IInv
<1>1. Init => IInv
  <2> SUFFICES ASSUME Init PROVE IInv
    OBVIOUS
  <2>1. TypeOK
    BY DEF Init, TypeOK
  <2>2. NetInv
    BY DEF Init, NetInv
  <2>3. LoopInv
    BY DEF Init, LoopInv, Idle
  <2>4. RowInv
    BY DEF Init, RowInv
  <2> QED BY <2>1, <2>2, <2>3, <2>4 DEF IInv
<1>2. IInv /\ [Next]_vars => IInv'
  BY TypeStep, NetStep, LoopStep, RowStep DEF IInv
<1> QED BY <1>1, <1>2, PTL DEF Spec

\* A memory the map accepted is complete on the map or complete at the hub, whatever fails and however many
\* loops forward it: relay deletes a copy only behind the hub's answer for all of it.
THEOREM NothingIsLost == Spec => []NothingLost
<1>1. IInv => NothingLost
  BY DEF IInv, TypeOK, RowInv, NothingLost, OnTheMap
<1> QED BY <1>1, Inductive, PTL

\* A row marked 'sent' is a memory the hub has, with its file.
THEOREM SentMemoriesAreThere == Spec => []SentIsThere
<1>1. IInv => SentIsThere
  BY DEF IInv, RowInv, SentIsThere
<1> QED BY <1>1, Inductive, PTL

\* relay gives up only what the hub refused, or has.
THEOREM FailedMemoriesWereRefused == Spec => []FailedIsRefused
<1>1. IInv => FailedIsRefused
  BY DEF IInv, RowInv, FailedIsRefused
<1> QED BY <1>1, Inductive, PTL

-----------------------------------------------------------------------------
\* What carrying out a handover takes beyond the inductive invariant: the hub knows no memory before the map does
\* and keeps none that it refuses, what was on the map before the hub stays there, and a loop is only ever at a
\* memory the outbox has a word of.
HandInv ==
  /\ \A r \in net : row[r.mem] # "none" /\ (r.phase = "put" => r.mem \notin RefusedFile)
  /\ \A m \in intake : row[m] # "none" /\ m \notin RefusedText
  /\ \A m \in stored : m \notin RefusedFile
  /\ \A m \in Legacy : OnTheMap(m)
  /\ \A p \in Procs : relay[p].at # "idle" => outbox[relay[p].mem] # "none"
  /\ \A p \in Procs : relay[p].at \in {"unlink", "forget"} => relay[p].mem \notin Legacy

\* Requests: what is new under way is asked for a memory some loop is at; the hub puts no file it refuses.
LEMMA HandNet ==
  ASSUME IInv, HandInv, [Next]_vars
  PROVE  \A r \in net' : row'[r.mem] # "none" /\ (r.phase = "put" => r.mem \notin RefusedFile)
<1> DEFINE Fine(r) == row'[r.mem] # "none" /\ (r.phase = "put" => r.mem \notin RefusedFile)
<1>0. TypeOK /\ NetInv /\ LoopInv /\ Grows
  BY GrowsStep DEF IInv
<1>1. \A r \in net : r \in Requests /\ Fine(r)
  BY <1>0 DEF TypeOK, Requests, HandInv, Grows
<1>2. \A p \in Procs : relay[p].at # "idle" => relay[p].mem \in Memories /\ row'[relay[p].mem] # "none"
  BY <1>0, LoopMemory DEF LoopInv, Grows
<1> USE DEF localVars, hubVars
<1>3. ASSUME net' \subseteq net PROVE \A r \in net' : Fine(r)
  BY <1>1, <1>3
<1>4. ASSUME NEW r \in net, NEW phase \in {"answered", "refused"}, Answer(r, phase) PROVE \A q \in net' : Fine(q)
  <2>1. r \in Requests /\ Fine(r)
    BY <1>1
  <2>2. [r EXCEPT !.phase = phase].mem = r.mem /\ [r EXCEPT !.phase = phase].phase = phase
    BY <2>1 DEF Requests
  <2>3. Fine([r EXCEPT !.phase = phase])
    BY <2>1, <2>2
  <2> HIDE DEF Fine
  <2> QED BY <1>1, <1>4, <2>3 DEF Answer
<1>5. ASSUME NEW p \in Procs, Abandon(p) PROVE \A q \in net' : Fine(q)
  <2>1. \A r \in Requests : [r EXCEPT !.by = None].mem = r.mem /\ [r EXCEPT !.by = None].phase = r.phase
    BY DEF Requests
  <2>2. \A r \in net : Fine([r EXCEPT !.by = None])
    BY <1>1, <2>1
  <2> HIDE DEF Fine
  <2> QED BY <1>1, <1>5, <2>2 DEF Abandon
<1>6. ASSUME NEW p \in Procs, Build(p) PROVE \A q \in net' : Fine(q)
  <2>1. Fine(Request(p, relay[p].mem, "submit"))
    BY <1>2, <1>6 DEF Build, Request
  <2> HIDE DEF Fine
  <2> QED BY <1>1, <1>6, <2>1 DEF Build
<1>7. ASSUME NEW p \in Procs, Submitted(p) PROVE \A q \in net' : Fine(q)
  <2>1. PICK r \in net : net' \subseteq net \cup {Request(p, r.mem, "upload")}
    BY <1>7 DEF Submitted
  <2>2. Fine(Request(p, r.mem, "upload"))
    BY <1>1 DEF Request
  <2> HIDE DEF Fine
  <2> QED BY <1>1, <2>1, <2>2
<1>8. ASSUME NEW r \in net, HubPut(r) PROVE \A q \in net' : Fine(q)
  <2>1. r \in Requests /\ Fine(r) /\ r.mem \notin RefusedFile
    BY <1>1, <1>8 DEF HubPut
  <2>2. Fine([r EXCEPT !.phase = "put"])
    BY <2>1 DEF Requests
  <2> HIDE DEF Fine
  <2> QED BY <1>1, <1>8, <2>2 DEF HubPut
<1>9. \/ net' \subseteq net
      \/ \E r \in net, phase \in {"answered", "refused"} : Answer(r, phase)
      \/ \E p \in Procs : Abandon(p) \/ Build(p) \/ Submitted(p)
      \/ \E r \in net : HubPut(r)
  <2>1. ASSUME NEW m \in Memories, StoreFile(m) \/ InsertMemory(m) \/ Enqueue(m) \/ NextTry(m)
        PROVE  net' \subseteq net
    BY <2>1 DEF StoreFile, InsertMemory, Enqueue, NextTry
  <2>2. ASSUME NEW p \in Procs,
               \/ \E m \in Memories : Claim(p, m)
               \/ FileGone(p) \/ RowGone(p) \/ Uploaded(p) \/ Rejected(p) \/ MarkSent(p) \/ Unlink(p)
               \/ Forget(p) \/ Catch(p) \/ StatementFails(p) \/ UnlinkFails(p)
        PROVE  net' \subseteq net
    BY <2>2 DEF Claim, FileGone, RowGone, Uploaded, Rejected, MarkSent, Unlink, Forget, Catch, StatementFails,
                UnlinkFails
  <2>3. ASSUME NEW p \in Procs, Timeout(p) \/ Die(p) PROVE Abandon(p)
    BY <2>3 DEF Timeout, Die
  <2>4. ASSUME NEW r \in net, HubSubmit(r) \/ HubDuplicate(r) \/ HubRefuse(r) \/ HubStore(r)
        PROVE  \E phase \in {"answered", "refused"} : Answer(r, phase)
    BY <2>4 DEF HubSubmit, HubDuplicate, HubRefuse, HubStore
  <2>5. ASSUME NEW r \in net, HubDrop(r) PROVE net' \subseteq net
    BY <2>5 DEF HubDrop
  <2>6. UNCHANGED vars => net' \subseteq net
    BY DEF vars
  <2> QED BY <2>1, <2>2, <2>3, <2>4, <2>5, <2>6 DEF Next, RelayStep, HubStep
<1> HIDE DEF Fine
<1>10. \A r \in net' : Fine(r)
  BY <1>3, <1>4, <1>5, <1>6, <1>7, <1>8, <1>9
<1> QED BY <1>10 DEF Fine

\* The hub: what it takes in was asked for, and it takes nothing it refuses.
LEMMA HandHub ==
  ASSUME IInv, HandInv, [Next]_vars
  PROVE  /\ \A m \in intake' : row'[m] # "none" /\ m \notin RefusedText
         /\ \A m \in stored' : m \notin RefusedFile
<1>0. TypeOK /\ Grows /\ intake \subseteq Memories
  BY GrowsStep DEF IInv, TypeOK
<1> USE DEF hubVars
<1>1. intake' = intake \/ \E r \in net : intake' = intake \cup {r.mem} /\ r.mem \notin RefusedText
  BY DEF Next, RelayStep, HubStep, StoreFile, InsertMemory, Enqueue, NextTry, Claim, Build, FileGone, RowGone,
         Submitted, Uploaded, Rejected, MarkSent, Unlink, Forget, Catch, HubSubmit, HubDuplicate, HubRefuse,
         HubPut, HubStore, HubDrop, Timeout, StatementFails, UnlinkFails, Die, vars
<1>2. stored' = stored \/ \E r \in net : stored' = stored \cup {r.mem} /\ r.phase = "put"
  BY DEF Next, RelayStep, HubStep, StoreFile, InsertMemory, Enqueue, NextTry, Claim, Build, FileGone, RowGone,
         Submitted, Uploaded, Rejected, MarkSent, Unlink, Forget, Catch, HubSubmit, HubDuplicate, HubRefuse,
         HubPut, HubStore, HubDrop, Timeout, StatementFails, UnlinkFails, Die, vars
<1>3. \A r \in net : r.mem \in Memories /\ row[r.mem] # "none"
  BY <1>0 DEF TypeOK, Requests, HandInv
<1>4. \A m \in intake' : row'[m] # "none" /\ m \notin RefusedText
  BY <1>0, <1>1, <1>3 DEF HandInv, Grows
<1>5. \A m \in stored' : m \notin RefusedFile
  BY <1>2 DEF HandInv
<1> QED BY <1>4, <1>5

\* The loops: a memory they are at has a word in the outbox, and one whose copy they delete is not kept.
LEMMA HandLoops ==
  ASSUME IInv, HandInv, [Next]_vars
  PROVE  /\ \A p \in Procs : relay'[p].at # "idle" => outbox'[relay'[p].mem] # "none"
         /\ \A p \in Procs : relay'[p].at \in {"unlink", "forget"} => relay'[p].mem \notin Legacy
<1>0. TypeOK /\ LoopInv
  BY DEF IInv
<1> USE DEF localVars
<1>1. \/ outbox' = outbox
      \/ \E m \in Memories \cup {relay[p].mem : p \in Procs}, w \in {"pending", "sent", "failed"} :
           outbox' = [outbox EXCEPT ![m] = w]
  BY DEF Next, RelayStep, HubStep, StoreFile, InsertMemory, Enqueue, NextTry, Claim, Build, FileGone, RowGone,
         Submitted, Uploaded, Rejected, MarkSent, Unlink, Forget, Catch, HubSubmit, HubDuplicate, HubRefuse,
         HubPut, HubStore, HubDrop, Timeout, StatementFails, UnlinkFails, Die, vars
<1>2. \A m \in Memories : outbox[m] # "none" => outbox'[m] # "none"
  BY <1>0, <1>1 DEF TypeOK
<1>3. ASSUME NEW p \in Procs
      PROVE  \/ relay'[p] = relay[p]
             \/ relay'[p].at = "idle"
             \/ /\ relay[p].at # "idle" /\ relay'[p].mem = relay[p].mem
                /\ relay'[p].at \notin {"unlink", "forget"}
             \/ /\ relay[p].at # "idle" /\ relay'[p].mem = relay[p].mem
                /\ relay[p].at = "mark" => relay[p].mem \notin Legacy
                /\ relay[p].at \in {"mark", "unlink"}
             \/ /\ relay'[p].at = "build"
                /\ \E m \in Memories : relay'[p].mem = m /\ outbox[m] = "pending"
  <2>0. ASSUME NEW s \in Stages, relay[p].at # "idle", Goto(p, s)
        PROVE  relay'[p].at = s /\ relay'[p].mem = relay[p].mem
    BY <1>0, <2>0, LoopMemory DEF Goto, TypeOK, Idle
  <2>1. CASE relay'[p] = relay[p]
    BY <2>1
  <2>2. CASE Rest(p)
    BY <1>0, <2>2 DEF Rest, TypeOK, Idle
  <2>3. ASSUME NEW s \in Stages \ {"unlink", "forget"}, relay[p].at # "idle", Goto(p, s)
        PROVE  /\ relay[p].at # "idle" /\ relay'[p].mem = relay[p].mem
               /\ relay'[p].at \notin {"unlink", "forget"}
    BY <2>0, <2>3
  <2>4. ASSUME NEW m \in Memories, Claim(p, m)
        PROVE  relay'[p].at = "build" /\ relay'[p].mem = m /\ outbox[m] = "pending"
    BY <1>0, <2>4 DEF Claim, TypeOK
  <2>5. CASE Build(p) \/ FileGone(p) \/ Submitted(p) \/ Uploaded(p) \/ Rejected(p) \/ Timeout(p) \/ StatementFails(p)
    <3>1. relay[p].at # "idle"
      BY <2>5 DEF Build, FileGone, Submitted, Uploaded, Rejected, Timeout, StatementFails
    <3>2. \E s \in Stages \ {"unlink", "forget"} : Goto(p, s)
      BY <2>5 DEF Build, FileGone, Submitted, Uploaded, Rejected, Timeout, StatementFails, Stages
    <3> QED BY <2>3, <3>1, <3>2
  <2>6. CASE MarkSent(p)
    <3>1. CASE relay[p].mem \in Legacy
      BY <2>2, <2>6, <3>1 DEF MarkSent
    <3>2. CASE relay[p].mem \notin Legacy
      <4>1. relay[p].at = "mark" /\ (Goto(p, "unlink") \/ Goto(p, "forget"))
        BY <2>6, <3>2 DEF MarkSent
      <4> QED BY <2>0, <3>2, <4>1 DEF Stages
    <3> QED BY <3>1, <3>2
  <2>7. CASE Unlink(p) \/ UnlinkFails(p)
    <3>1. relay[p].at = "unlink" /\ Goto(p, "forget")
      BY <2>7 DEF Unlink, UnlinkFails
    <3> QED BY <2>0, <3>1 DEF Stages
  <2>8. CASE RowGone(p) \/ Forget(p) \/ Catch(p) \/ Die(p)
    BY <2>2, <2>8 DEF RowGone, Forget, Catch, Die
  <2>9. ASSUME NEW q \in Procs, q # p,
               \/ \E m \in Memories : Claim(q, m)
               \/ Build(q) \/ FileGone(q) \/ RowGone(q) \/ Submitted(q) \/ Uploaded(q) \/ Rejected(q)
               \/ MarkSent(q) \/ Unlink(q) \/ Forget(q) \/ Catch(q)
               \/ Timeout(q) \/ StatementFails(q) \/ UnlinkFails(q) \/ Die(q)
        PROVE  relay'[p] = relay[p]
    BY <1>0, <2>9 DEF Claim, Build, FileGone, RowGone, Submitted, Uploaded, Rejected, MarkSent, Unlink, Forget,
                      Catch, Timeout, StatementFails, UnlinkFails, Die, Goto, Rest, TypeOK
  <2>10. ASSUME NEW m \in Memories, StoreFile(m) \/ InsertMemory(m) \/ Enqueue(m) \/ NextTry(m)
         PROVE  relay'[p] = relay[p]
    BY <2>10 DEF StoreFile, InsertMemory, Enqueue, NextTry
  <2>11. ASSUME NEW r \in net, HubStep(r) \/ HubDrop(r) PROVE relay'[p] = relay[p]
    BY <2>11 DEF HubStep, HubSubmit, HubDuplicate, HubRefuse, HubPut, HubStore, HubDrop
  <2>12. UNCHANGED vars => relay'[p] = relay[p]
    BY DEF vars
  <2> QED
    BY <2>1, <2>4, <2>5, <2>6, <2>7, <2>8, <2>9, <2>10, <2>11, <2>12 DEF Next, RelayStep
<1>4. ASSUME NEW p \in Procs, relay'[p].at # "idle" PROVE outbox'[relay'[p].mem] # "none"
  BY <1>0, <1>2, <1>3, <1>4, LoopMemory DEF HandInv
<1>5. ASSUME NEW p \in Procs, relay'[p].at \in {"unlink", "forget"} PROVE relay'[p].mem \notin Legacy
  BY <1>3, <1>5 DEF HandInv
<1> QED BY <1>4, <1>5

\* The map: what was on it before the hub is left alone.
LEMMA HandKept ==
  ASSUME IInv, HandInv, [Next]_vars
  PROVE  \A m \in Legacy : OnTheMap(m)'
<1>0. TypeOK /\ LoopInv
  BY DEF IInv
<1> SUFFICES ASSUME NEW m \in Legacy PROVE row'[m] = row[m] /\ (file'[m] = file[m] \/ file[m] = "none")
  BY DEF HandInv, OnTheMap
<1> USE DEF localVars
<1>1. m \in Memories /\ row[m] = "there" /\ (m \in WithFile => file[m] = "there")
  BY DEF HandInv, OnTheMap
<1>2. \A p \in Procs : relay[p].at \in {"unlink", "forget"} => relay[p].mem \in Memories \ {m}
  BY <1>0, LoopMemory DEF HandInv
<1>3. \/ UNCHANGED <<row, file>>
      \/ \E n \in Memories : StoreFile(n) \/ InsertMemory(n)
      \/ \E p \in Procs : Unlink(p) \/ Forget(p) \/ StatementFails(p)
  BY DEF Next, RelayStep, HubStep, Enqueue, NextTry, Claim, Build, FileGone, RowGone, Submitted, Uploaded, Rejected,
         MarkSent, Catch, HubSubmit, HubDuplicate, HubRefuse, HubPut, HubStore, HubDrop, Timeout, UnlinkFails,
         Die, vars
<1>4. ASSUME NEW n \in Memories, StoreFile(n) \/ InsertMemory(n)
      PROVE  row'[m] = row[m] /\ file'[m] = file[m]
  BY <1>0, <1>1, <1>4 DEF StoreFile, InsertMemory, TypeOK
<1>5. ASSUME NEW p \in Procs, Unlink(p) \/ Forget(p) \/ StatementFails(p)
      PROVE  row'[m] = row[m] /\ file'[m] = file[m]
  BY <1>0, <1>1, <1>2, <1>5 DEF Unlink, Forget, StatementFails, TypeOK
<1> QED BY <1>3, <1>4, <1>5

\* What carrying out the handover takes is inductive on top of the inductive invariant.
LEMMA HandInductive == Spec => [](IInv /\ HandInv)
<1>1. Init => HandInv
  <2> SUFFICES ASSUME Init PROVE HandInv
    OBVIOUS
  <2>1. \A m \in Legacy : OnTheMap(m)
    BY DEF Init, OnTheMap
  <2>2. \A p \in Procs : relay[p].at = "idle"
    BY DEF Init, Idle
  <2>3. net = {} /\ intake = {} /\ stored = {}
    BY DEF Init
  <2> QED BY <2>1, <2>2, <2>3 DEF HandInv
<1>2. IInv /\ HandInv /\ [Next]_vars => HandInv'
  BY HandNet, HandHub, HandLoops, HandKept DEF HandInv
<1> QED BY <1>1, <1>2, Inductive, PTL DEF Spec

-----------------------------------------------------------------------------
HandoverStep == [Handed!Next]_<<Shown, outbox>>

\* What the abstract place says, in terms of what the hub and the map have.
LEMMA Places ==
  ASSUME IInv, NEW m \in Memories
  PROVE  /\ row[m] = "none" <=> Place(m) = "none"
         /\ row[m] # "none" => (AtHub(m) <=> Place(m) \in {"both", "hub"})
         /\ row[m] # "none" => (OnTheMap(m) <=> Place(m) \in {"both", "map"})
         /\ row[m] # "none" /\ ~AtHub(m) => Place(m) = "map"
<1>1. row[m] # "none" => AtHub(m) \/ OnTheMap(m)
  BY DEF IInv, TypeOK, RowInv, OnTheMap
<1> QED BY <1>1 DEF Place

\* A step that changes neither what is where nor what is said.
LEMMA HandoverUntouched ==
  ASSUME \A m \in Memories : Place(m)' = Place(m), UNCHANGED outbox
  PROVE  HandoverStep
<1>1. Shown' = Shown
  BY DEF Shown
<1> QED BY <1>1 DEF HandoverStep

\* The same, when no row, no file and nothing the hub has changes.
LEMMA HandoverRests ==
  ASSUME UNCHANGED <<row, file, outbox>>, \A m \in Memories : AtHub(m)' <=> AtHub(m)
  PROVE  HandoverStep
<1>1. \A m \in Memories : Place(m)' = Place(m)
  BY DEF Place, OnTheMap
<1> QED BY <1>1, HandoverUntouched

\* The place of one memory changes.
LEMMA OnePlace ==
  ASSUME NEW n \in Memories, \A m \in Memories \ {n} : Place(m)' = Place(m)
  PROVE  Shown' = [Shown EXCEPT ![n] = Place(n)']
BY DEF Shown

\* The hub comes to have all of a memory.
LEMMA HandoverArrives ==
  ASSUME IInv, HandInv, IInv', HandInv', NEW n \in Memories, row[n] # "none",
         UNCHANGED <<row, file, outbox>>,
         \A m \in Memories \ {n} : AtHub(m)' <=> AtHub(m),
         AtHub(n) => AtHub(n)'
  PROVE  HandoverStep
<1>1. CASE AtHub(n)' <=> AtHub(n)
  BY <1>1, HandoverRests
<1>2. CASE AtHub(n)' /\ ~AtHub(n)
  <2>1. Place(n) = "map" /\ OnTheMap(n)
    BY <1>2, Places
  <2>2. Place(n)' = "both"
    BY <1>2, <2>1 DEF Place, OnTheMap
  <2>3. \A m \in Memories \ {n} : Place(m)' = Place(m)
    BY DEF Place, OnTheMap
  <2>4. n \notin Refused
    BY <1>2 DEF AtHub, HandInv, Refused
  <2>5. Shown' = [Shown EXCEPT ![n] = "both"] /\ Shown[n] = "map"
    BY <2>1, <2>2, <2>3, OnePlace DEF Shown
  <2>6. Handed!Arrive(n)
    BY <2>4, <2>5 DEF Handed!Arrive
  <2> QED BY <2>6 DEF HandoverStep, Handed!Next
<1> QED BY <1>1, <1>2

\* The copy on the map goes, in part or in whole.
LEMMA HandoverLeaves ==
  ASSUME IInv, IInv', NEW n \in Memories \ Legacy, AtHub(n), row[n] # "none", row'[n] # "none",
         UNCHANGED <<outbox, hubVars>>,
         \A m \in Memories \ {n} : row'[m] = row[m] /\ file'[m] = file[m],
         OnTheMap(n)' => OnTheMap(n)
  PROVE  HandoverStep
<1>1. \A m \in Memories : AtHub(m)' <=> AtHub(m)
  BY DEF AtHub, hubVars
<1>2. \A m \in Memories \ {n} : Place(m)' = Place(m)
  BY <1>1 DEF Place, OnTheMap
<1>3. CASE OnTheMap(n)' <=> OnTheMap(n)
  <2>1. Place(n)' = Place(n)
    BY <1>1, <1>3 DEF Place
  <2> QED BY <1>2, <2>1, HandoverUntouched
<1>4. CASE OnTheMap(n) /\ ~OnTheMap(n)'
  <2>1. Place(n) = "both" /\ Place(n)' = "hub"
    BY <1>1, <1>4 DEF Place
  <2>2. Shown' = [Shown EXCEPT ![n] = "hub"] /\ Shown[n] = "both"
    BY <1>2, <2>1, OnePlace DEF Shown
  <2>3. Handed!Leave(n)
    BY <2>2 DEF Handed!Leave
  <2> QED BY <2>3 DEF HandoverStep, Handed!Next
<1> QED BY <1>3, <1>4

\* The outbox says something of a memory, with its ground.
LEMMA HandoverSays ==
  ASSUME IInv, NEW n \in Memories, NEW w \in {"pending", "sent", "failed"}, outbox[n] # "none",
         w = "sent" => AtHub(n), w = "failed" => AtHub(n) \/ n \in Refused,
         UNCHANGED <<row, file, hubVars>>, outbox' = [outbox EXCEPT ![n] = w]
  PROVE  HandoverStep
<1>1. \A m \in Memories : Place(m)' = Place(m)
  BY DEF Place, OnTheMap, AtHub, hubVars
<1>2. Shown' = Shown
  BY <1>1 DEF Shown
<1>3. AtHub(n) => Shown[n] \in {"both", "hub"}
  BY Places DEF Shown, IInv, RowInv
<1>4. Handed!Say(n)
  BY <1>2, <1>3 DEF Handed!Say, Handed!Arrived
<1> QED BY <1>4 DEF HandoverStep, Handed!Next

\* Every step of the map, of a loop and of the hub is a step of the handover or leaves it alone.
LEMMA RelayStepIsHandoverStep ==
  ASSUME IInv, HandInv, IInv', HandInv', [Next]_vars
  PROVE  HandoverStep
<1>0. TypeOK /\ NetInv /\ LoopInv /\ RowInv /\ Grows
  BY GrowsStep DEF IInv
<1>h. \A m \in Memories : AtHub(m) => AtHub(m)'
  BY <1>0 DEF Grows
<1> USE DEF localVars
<1>1. ASSUME NEW n \in Memories, StoreFile(n) PROVE HandoverStep
  <2>1. \A m \in Memories : Place(m)' = Place(m)
    BY <1>0, <1>1 DEF StoreFile, Place, OnTheMap, AtHub, hubVars, TypeOK
  <2> QED BY <1>1, <2>1, HandoverUntouched DEF StoreFile
<1>2. ASSUME NEW n \in Memories, InsertMemory(n) PROVE HandoverStep
  <2>1. \A m \in Memories \ {n} : Place(m)' = Place(m)
    BY <1>0, <1>2 DEF InsertMemory, Place, OnTheMap, AtHub, hubVars, TypeOK
  <2>2. ~AtHub(n) /\ AtHub(n)' = AtHub(n) /\ OnTheMap(n)' /\ row'[n] # "none"
    BY <1>0, <1>2 DEF InsertMemory, AtHub, OnTheMap, hubVars, HandInv, TypeOK
  <2>3. Place(n) = "none" /\ Place(n)' = "map"
    BY <1>2, <2>2 DEF InsertMemory, Place
  <2>4. Shown' = [Shown EXCEPT ![n] = "map"] /\ Shown[n] = "none"
    BY <2>1, <2>3, OnePlace DEF Shown
  <2>5. Handed!Accept(n)
    BY <1>2, <2>4 DEF InsertMemory, Handed!Accept
  <2> QED BY <2>5 DEF HandoverStep, Handed!Next
<1>3. ASSUME NEW n \in Memories, Enqueue(n) PROVE HandoverStep
  <2>1. \A m \in Memories : Place(m)' = Place(m)
    BY <1>3 DEF Enqueue, Place, OnTheMap, AtHub, hubVars
  <2>2. Shown' = Shown
    BY <2>1 DEF Shown
  <2>3. Handed!List(n)
    BY <1>3, <2>2 DEF Enqueue, Handed!List
  <2> QED BY <2>3 DEF HandoverStep, Handed!Next
<1>4. ASSUME NEW n \in Memories, NextTry(n) PROVE HandoverStep
  BY <1>4, HandoverRests DEF NextTry, hubVars, AtHub
<1>5. ASSUME NEW p \in Procs,
             \/ \E n \in Memories : Claim(p, n)
             \/ Build(p) \/ FileGone(p) \/ Submitted(p) \/ Uploaded(p) \/ Rejected(p)
             \/ Timeout(p) \/ UnlinkFails(p) \/ Die(p)
      PROVE  HandoverStep
  <2>1. UNCHANGED <<row, file, outbox, hubVars>>
    BY <1>5 DEF Claim, Build, FileGone, Submitted, Uploaded, Rejected, Timeout, UnlinkFails, Die
  <2> QED BY <2>1, HandoverRests DEF hubVars, AtHub
<1>6. ASSUME NEW p \in Procs, RowGone(p) PROVE HandoverStep
  <2> DEFINE n == relay[p].mem
  <2>1. n \in Memories /\ outbox[n] # "none" /\ row[n] = "gone"
    BY <1>0, <1>6, LoopMemory DEF RowGone, LoopInv, HandInv, TypeOK
  <2>2. AtHub(n)
    BY <1>0, <2>1 DEF RowInv
  <2>3. UNCHANGED <<row, file, hubVars>> /\ outbox' = [outbox EXCEPT ![n] = "failed"]
    BY <1>6 DEF RowGone
  <2> QED BY <2>1, <2>2, <2>3, HandoverSays
<1>7. ASSUME NEW p \in Procs, MarkSent(p) PROVE HandoverStep
  <2> DEFINE n == relay[p].mem
  <2>1. n \in Memories /\ outbox[n] # "none" /\ AtHub(n)
    BY <1>0, <1>7, LoopMemory DEF MarkSent, LoopInv, HandInv
  <2>2. UNCHANGED <<row, file, hubVars>> /\ outbox' = [outbox EXCEPT ![n] = "sent"]
    BY <1>7 DEF MarkSent
  <2> QED BY <2>1, <2>2, HandoverSays
<1>8. ASSUME NEW p \in Procs, Catch(p) PROVE HandoverStep
  <2> DEFINE n == relay[p].mem
             w == IF relay[p].at = "fatal" THEN "failed" ELSE "pending"
  <2>1. n \in Memories /\ outbox[n] # "none"
    BY <1>0, <1>8, LoopMemory DEF Catch, HandInv
  <2>2. w = "failed" => n \in Refused
    BY <1>0 DEF LoopInv
  <2>3. UNCHANGED <<row, file, hubVars>> /\ outbox' = [outbox EXCEPT ![n] = w]
    BY <1>8 DEF Catch
  <2>4. w \in {"pending", "sent", "failed"} /\ w # "sent"
    OBVIOUS
  <2> HIDE DEF w
  <2> QED BY <2>1, <2>2, <2>3, <2>4, HandoverSays
<1>9. ASSUME NEW p \in Procs, relay[p].at \in {"unlink", "forget"}, UNCHANGED <<outbox, hubVars>>,
             \/ UNCHANGED row /\ file' = [file EXCEPT ![relay[p].mem] = "deleted"]
             \/ UNCHANGED file /\ row' = [row EXCEPT ![relay[p].mem] = "gone"]
      PROVE  HandoverStep
  <2>0. PICK n \in Memories : n = relay[p].mem
    BY <1>0, <1>9, LoopMemory
  <2>1. n \notin Legacy /\ row[n] # "none" /\ AtHub(n)
    BY <1>0, <1>9, <2>0 DEF LoopInv, HandInv
  <2>2. row'[n] # "none" /\ \A m \in Memories \ {n} : row'[m] = row[m] /\ file'[m] = file[m]
    BY <1>0, <1>9, <2>0, <2>1 DEF TypeOK
  <2>3. OnTheMap(n)' => OnTheMap(n)
    BY <1>0, <1>9, <2>0, <2>1 DEF OnTheMap, TypeOK
  <2> QED BY <1>9, <2>0, <2>1, <2>2, <2>3, HandoverLeaves
<1>10. ASSUME NEW p \in Procs, Unlink(p) \/ Forget(p) PROVE HandoverStep
  BY <1>9, <1>10 DEF Unlink, Forget
<1>11. ASSUME NEW p \in Procs, StatementFails(p) PROVE HandoverStep
  <2> DEFINE n == relay[p].mem
  <2>1. n \in Memories /\ outbox[n] # "none" /\ (relay[p].at = "mark" => AtHub(n))
    BY <1>0, <1>11, LoopMemory DEF StatementFails, LoopInv, HandInv
  <2>2. UNCHANGED <<file, hubVars>>
    BY <1>11 DEF StatementFails
  <2>3. CASE UNCHANGED <<row, outbox>>
    BY <2>2, <2>3, HandoverRests DEF hubVars, AtHub
  <2>4. CASE relay[p].at = "mark" /\ outbox' = [outbox EXCEPT ![n] = "sent"] /\ UNCHANGED row
    BY <2>1, <2>2, <2>4, HandoverSays
  <2>5. CASE relay[p].at = "forget" /\ row' = [row EXCEPT ![n] = "gone"] /\ UNCHANGED outbox
    BY <1>9, <2>2, <2>5
  <2> QED BY <1>11, <2>3, <2>4, <2>5 DEF StatementFails
<1>12. ASSUME NEW r \in net, HubSubmit(r) \/ HubStore(r) PROVE HandoverStep
  <2>1. r.mem \in Memories /\ row[r.mem] # "none" /\ UNCHANGED <<row, file, outbox>>
    BY <1>0, <1>12 DEF TypeOK, Requests, HandInv, HubSubmit, HubStore
  <2>2. /\ intake' \in {intake, intake \cup {r.mem}} /\ stored' \in {stored, stored \cup {r.mem}}
        /\ blob' = blob
    BY <1>12 DEF HubSubmit, HubStore
  <2>3. \A m \in Memories \ {r.mem} : AtHub(m)' <=> AtHub(m)
    BY <2>2 DEF AtHub
  <2> QED BY <1>h, <2>1, <2>3, HandoverArrives
<1>13. ASSUME NEW r \in net, HubPut(r) PROVE HandoverStep
  <2>1. UNCHANGED <<row, file, outbox, intake, stored>> /\ blob' = blob \cup {r.mem} /\ r.mem \notin stored
    BY <1>13 DEF HubPut
  <2>2. \A m \in Memories : m \in stored => (m \in blob' <=> m \in blob)
    BY <2>1
  <2>3. \A m \in Memories : AtHub(m)' <=> AtHub(m)
    BY <2>1, <2>2 DEF AtHub
  <2> QED BY <2>1, <2>3, HandoverRests
<1>14. ASSUME NEW r \in net, HubDuplicate(r) \/ HubRefuse(r) \/ HubDrop(r) PROVE HandoverStep
  <2>1. UNCHANGED <<row, file, outbox, hubVars>>
    BY <1>14 DEF HubDuplicate, HubRefuse, HubDrop
  <2> QED BY <2>1, HandoverRests DEF hubVars, AtHub
<1>15. CASE UNCHANGED vars
  BY <1>15, HandoverRests DEF vars, hubVars, AtHub
<1> QED
  BY <1>1, <1>2, <1>3, <1>4, <1>5, <1>6, <1>7, <1>8, <1>10, <1>11, <1>12, <1>13, <1>14, <1>15
     DEF Next, RelayStep, HubStep

\* The map's transaction, any number of relay loops and the Intake API carry out a handover: a memory is whole at
\* the hub before its copy goes, what was on the map before the hub stays, what the hub refuses stays, and the
\* outbox never says "sent" or "failed" without that ground.
THEOREM RelayImplementsHandover == Spec => ImplementsHandover
<1>1. Init => Handed!Init
  <2> SUFFICES ASSUME Init PROVE Handed!Init
    OBVIOUS
  <2>1. \A m \in Memories : Place(m) = IF m \in Legacy THEN "map" ELSE "none"
    BY DEF Init, Place, OnTheMap, AtHub
  <2>2. Shown = [m \in Memories |-> IF m \in Legacy THEN "map" ELSE "none"]
    BY <2>1 DEF Shown
  <2> QED BY <2>2 DEF Init, Handed!Init
<1>2. (IInv /\ HandInv) /\ (IInv /\ HandInv)' /\ [Next]_vars => HandoverStep
  BY RelayStepIsHandoverStep
<1> QED
  BY <1>1, <1>2, HandInductive, PTL DEF Spec, ImplementsHandover, Handed!Spec, HandoverStep

(***************************************************************************)
(* Site                                                                    *)
(***************************************************************************)

USE SiteAssumption

(* Types *)

Gens == 0 .. MaxGen
Waits == Fetched \cup Listed
Submissions == [held : BOOLEAN, file : {"none", "missing", "stored"}]
SiteRequests == [at : {"none", "preparing", "submit", "upload", "ok", "failed", "refused", "over"},
                 file : BOOLEAN, lost : BOOLEAN]
Screens == [page : Pages \cup {"loading", "error", "receipt"}, of : Subs \cup {NoSub}]
FormStates == [at : {"empty", "filled", "sending", "error", "not_saved"}, file : BOOLEAN, of : Subs \cup {NoSub}]
Answers == [said : {"nothing", "checking", "status", "unknown"}, of : Subs \cup {NoSub}]

\* A load has read a generation the hub has published: why what is served is never ahead of the hub.
CopyTyped == /\ feed \in Gens /\ site \in 0 .. feed
             /\ loads \in [Gens -> 0 .. MaxLoads] /\ \A g \in Gens : loads[g] > 0 => g <= feed
HubTyped == uses \in Sessions /\ hits \in Nat /\ hub \in [Subs -> Submissions] /\ request \in [Subs -> SiteRequests]
ScreenTyped == shown \in Screens /\ form \in FormStates
PagesTyped == first \in [Waits -> 0 .. MaxLoads] /\ details \in [Listed -> [Gens -> Nat]]
ChecksTyped == checks \in [Subs -> 0 .. MaxLoads] /\ answer \in Answers

Typed == CopyTyped /\ HubTyped /\ ScreenTyped /\ PagesTyped /\ ChecksTyped

-----------------------------------------------------------------------------
(* The inductive invariant *)

\* What the hub holds is all that was sent.
Kept(s) == hub[s].held /\ (request[s].file => hub[s].file = "stored")

\* A request that waits to be answered with a receipt has been kept; one that sends its file has its envelope there.
Forwarded(s) == /\ request[s].at = "upload" => hub[s].held
                /\ request[s].at = "ok" => Kept(s)

\* A receipt that is shown is of a request that is over, for which nothing more is done at the hub.
ReceiptTrue == shown.page = "receipt" =>
                 shown.of \in Subs /\ request[shown.of].at = "over" /\ Kept(shown.of)

SiteInv == Typed /\ (\A s \in Subs : Forwarded(s)) /\ ReceiptTrue

-----------------------------------------------------------------------------
(* Lemmas about the helpers *)

\* A page that is drawn is no receipt.
LEMMA ShowIs ==
  ASSUME NEW p \in Pages \cup {"loading", "error"}, Show(p)
  PROVE  ScreenTyped' /\ ChecksTyped' /\ shown'.page # "receipt"
BY DEF Show, Page, NoForm, NoAnswer, ScreenTyped, ChecksTyped, Screens, FormStates, Answers, Pages, Plain, Fetched,
       Listed

LEMMA ShowReceiptIs ==
  ASSUME NEW s \in Subs, ShowReceipt(s)
  PROVE  ScreenTyped' /\ ChecksTyped' /\ shown' = [page |-> "receipt", of |-> s]
BY DEF ShowReceipt, NoForm, NoAnswer, ScreenTyped, ChecksTyped, Screens, FormStates, Answers

LEMMA TellIs ==
  ASSUME ScreenTyped, UNCHANGED shown, NEW s \in Subs, NEW words \in {"error", "not_saved"}, Tell(s, words)
  PROVE  ScreenTyped'
BY DEF Tell, ScreenTyped, FormStates

LEMMA StepIs ==
  ASSUME request \in [Subs -> SiteRequests], NEW s \in Subs, NEW here,
         NEW there \in SUBSET {"none", "preparing", "submit", "upload", "ok", "failed", "refused", "over"},
         Step(s, here, there)
  PROVE  /\ request' \in [Subs -> SiteRequests]
         /\ request[s].at = here /\ request'[s].at \in there /\ request'[s].file = request[s].file
         /\ \A x \in Subs : x # s => request'[x] = request[x]
BY DEF Step, SiteRequests

\* Nothing that is said of a submission changes while its request and what the hub holds stay.
LEMMA OthersStay ==
  ASSUME NEW x \in Subs, request'[x] = request[x], hub'[x] = hub[x], Forwarded(x)
  PROVE  Forwarded(x)' /\ (Kept(x) => Kept(x)')
BY DEF Forwarded, Kept

\* A receipt that stays on the screen stays true while no request that is over is touched.
LEMMA ReceiptStaysTrue ==
  ASSUME ReceiptTrue, UNCHANGED shown,
         \A x \in Subs : request[x].at = "over" => request'[x] = request[x] /\ hub'[x] = hub[x]
  PROVE  ReceiptTrue'
BY DEF ReceiptTrue, Kept

\* What happens in the browser or with the copy of the feed alone.
LEMMA BrowserIs ==
  ASSUME SiteInv, Typed', UNCHANGED <<hub, request>>, shown' = shown \/ shown'.page # "receipt"
  PROVE  SiteInv'
BY DEF SiteInv, Forwarded, ReceiptTrue, Kept

-----------------------------------------------------------------------------
(* The copy of the feed *)

LEMMA PublishIs ==
  ASSUME Typed, Publish
  PROVE  Typed'
BY DEF Typed, CopyTyped, HubTyped, ScreenTyped, PagesTyped, ChecksTyped, Publish, server, browser, Gens

LEMMA RefreshIs ==
  ASSUME Typed, Refresh
  PROVE  Typed'
<1>1. CopyTyped'
  BY DEF Typed, CopyTyped, Refresh, Gens
<1> QED BY <1>1 DEF Typed, HubTyped, ScreenTyped, PagesTyped, ChecksTyped, Refresh, browser

LEMMA RefreshedIs ==
  ASSUME Typed, NEW g \in Gens, Refreshed(g)
  PROVE  Typed'
<1>1. CopyTyped'
  BY DEF Typed, CopyTyped, Refreshed, Gens
<1> QED BY <1>1 DEF Typed, HubTyped, ScreenTyped, PagesTyped, ChecksTyped, Refreshed, browser

LEMMA RefreshFailsIs ==
  ASSUME Typed, NEW g \in Gens, RefreshFails(g)
  PROVE  Typed'
<1>1. CopyTyped'
  BY DEF Typed, CopyTyped, RefreshFails, Gens
<1> QED BY <1>1 DEF Typed, HubTyped, ScreenTyped, PagesTyped, ChecksTyped, RefreshFails, browser

-----------------------------------------------------------------------------
(* Pages *)

LEMMA GoIs ==
  ASSUME Typed, NEW p \in Pages, Go(p)
  PROVE  Typed' /\ shown'.page # "receipt"
<1>1. ScreenTyped' /\ ChecksTyped' /\ shown'.page # "receipt"
  BY ShowIs DEF Go
<1>2. PagesTyped'
  <2>1. CASE p \in Plain
    BY <2>1 DEF Typed, PagesTyped, Go
  <2>2. CASE p \notin Plain
    <3>1. p \in Waits /\ first[p] + 1 \in 0 .. MaxLoads
      BY <2>2 DEF Typed, PagesTyped, Go, Pages, Waits
    <3> QED BY <2>2, <3>1 DEF Typed, PagesTyped, Go
  <2> QED BY <2>1, <2>2
<1> QED BY <1>1, <1>2 DEF Typed, CopyTyped, HubTyped, Go, server

LEMMA ArrivesIs ==
  ASSUME Typed, NEW p \in Waits, Arrives(p)
  PROVE  Typed' /\ (shown' = shown \/ shown'.page # "receipt")
<1>1. p \in Pages /\ first[p] - 1 \in 0 .. MaxLoads /\ site \in Gens
  BY DEF Typed, PagesTyped, CopyTyped, Arrives, Waits, Pages, Gens
<1>2. ScreenTyped' /\ ChecksTyped' /\ (shown' = shown \/ shown'.page # "receipt")
  <2>1. CASE Show(p) \/ Show("error")
    BY <1>1, <2>1, ShowIs
  <2>2. CASE UNCHANGED <<shown, form, answer, checks>>
    BY <2>2 DEF Typed, ScreenTyped, ChecksTyped
  <2> QED BY <2>1, <2>2 DEF Arrives
<1>3. PagesTyped'
  <2>1. first' \in [Waits -> 0 .. MaxLoads]
    BY <1>1 DEF Typed, PagesTyped, Arrives
  <2>2. CASE UNCHANGED details
    BY <2>1, <2>2 DEF Typed, PagesTyped
  <2>3. CASE p \in Listed /\ details' = [details EXCEPT ![p][site] = @ + 1]
    BY <1>1, <2>1, <2>3 DEF Typed, PagesTyped
  <2> QED BY <2>2, <2>3 DEF Arrives
<1> QED BY <1>2, <1>3 DEF Typed, CopyTyped, HubTyped, Arrives, server

LEMMA DetailsArriveIs ==
  ASSUME Typed, NEW p \in Listed, NEW g \in Gens, DetailsArrive(p, g)
  PROVE  Typed' /\ (shown' = shown \/ shown'.page # "receipt")
<1>1. ScreenTyped' /\ ChecksTyped' /\ (shown' = shown \/ shown'.page # "receipt")
  <2>1. CASE Show("map") \/ Show("error")
    BY <2>1, ShowIs DEF Pages, Listed
  <2>2. CASE UNCHANGED <<shown, form, answer, checks>>
    BY <2>2 DEF Typed, ScreenTyped, ChecksTyped
  <2> QED BY <2>1, <2>2 DEF DetailsArrive
<1>2. PagesTyped'
  <2>1. details[p] \in [Gens -> Nat] /\ details[p][g] - 1 \in Nat
    BY DEF Typed, PagesTyped, DetailsArrive
  <2> QED BY <2>1 DEF Typed, PagesTyped, DetailsArrive
<1> QED BY <1>1, <1>2 DEF Typed, CopyTyped, HubTyped, DetailsArrive, server

-----------------------------------------------------------------------------
(* What the visitor does, and the receipt page *)

LEMMA FillIs ==
  ASSUME Typed, NEW doc \in BOOLEAN, Fill(doc)
  PROVE  Typed' /\ shown' = shown
<1>1. ScreenTyped'
  BY DEF Typed, ScreenTyped, FormStates, Fill
<1> QED BY <1>1 DEF Typed, CopyTyped, HubTyped, PagesTyped, ChecksTyped, Fill, server

LEMMA CheckIs ==
  ASSUME Typed, NEW s \in Subs, Check(s)
  PROVE  Typed' /\ shown' = shown
<1>1. ChecksTyped'
  <2>1. checks[s] + 1 \in 0 .. MaxLoads
    BY DEF Typed, ChecksTyped, Check
  <2> QED BY <2>1 DEF Typed, ChecksTyped, Answers, Check
<1> QED BY <1>1 DEF Typed, CopyTyped, HubTyped, PagesTyped, ScreenTyped, Check, server

LEMMA CheckedIs ==
  ASSUME Typed, NEW s \in Subs, Checked(s)
  PROVE  Typed' /\ shown' = shown
<1>1. ChecksTyped'
  <2>1. checks[s] - 1 \in 0 .. MaxLoads
    BY DEF Typed, ChecksTyped, Checked
  <2>2. PICK said \in {"status", "unknown"} : answer' = [answer EXCEPT !.said = said]
    BY DEF Checked
  <2> QED BY <2>1, <2>2 DEF Typed, ChecksTyped, Answers, Checked
<1> QED BY <1>1 DEF Typed, CopyTyped, HubTyped, PagesTyped, ScreenTyped, Checked, server

LEMMA NextHourIs ==
  ASSUME Typed, NextHour
  PROVE  Typed' /\ shown' = shown
BY DEF Typed, CopyTyped, HubTyped, ScreenTyped, PagesTyped, ChecksTyped, NextHour, browser

-----------------------------------------------------------------------------
(* A request: what the site, the browser and the hub do about one submission *)

\* A request that has not reached the end is nowhere the invariant speaks of, or it is not over; so the
\* receipt on the screen, which is of one that is over, is not touched.
LEMMA RequestMoves ==
  ASSUME SiteInv, Typed', UNCHANGED shown, NEW s \in Subs, request[s].at # "over", Forwarded(s)',
         \A x \in Subs : x # s => request'[x] = request[x] /\ hub'[x] = hub[x]
  PROVE  SiteInv'
<1>1. \A x \in Subs : Forwarded(x)'
  BY OthersStay DEF SiteInv
<1>2. ReceiptTrue'
  BY ReceiptStaysTrue DEF SiteInv
<1> QED BY <1>1, <1>2 DEF SiteInv

LEMMA SendIs ==
  ASSUME SiteInv, NEW s \in Subs, Send(s)
  PROVE  SiteInv'
<1>1. request' \in [Subs -> SiteRequests] /\ request'[s].at = "preparing"
  BY DEF SiteInv, Typed, HubTyped, ScreenTyped, FormStates, SiteRequests, Send
<1>2. ScreenTyped'
  BY DEF SiteInv, Typed, ScreenTyped, FormStates, Send
<1>3. Typed'
  BY <1>1, <1>2 DEF SiteInv, Typed, CopyTyped, HubTyped, PagesTyped, ChecksTyped, Send, server
<1>4. Forwarded(s)'
  BY <1>1 DEF Forwarded
<1>5. \A x \in Subs : x # s => request'[x] = request[x] /\ hub'[x] = hub[x]
  BY DEF SiteInv, Typed, HubTyped, Send
<1> QED BY <1>3, <1>4, <1>5, RequestMoves DEF Send

LEMMA PrepareFailsIs ==
  ASSUME SiteInv, NEW s \in Subs, PrepareFails(s)
  PROVE  SiteInv'
<1>1. /\ request' \in [Subs -> SiteRequests] /\ request[s].at = "preparing" /\ request'[s].at = "over"
      /\ \A x \in Subs : x # s => request'[x] = request[x]
  BY StepIs DEF SiteInv, Typed, HubTyped, PrepareFails
<1>2. ScreenTyped'
  BY TellIs DEF SiteInv, Typed, PrepareFails
<1>3. Typed'
  BY <1>1, <1>2 DEF SiteInv, Typed, CopyTyped, HubTyped, PagesTyped, ChecksTyped, PrepareFails, server
<1>4. Forwarded(s)'
  BY <1>1 DEF Forwarded
<1> QED BY <1>1, <1>3, <1>4, RequestMoves DEF PrepareFails

LEMMA ReceivedIs ==
  ASSUME SiteInv, NEW s \in Subs, Received(s)
  PROVE  SiteInv'
<1>1. /\ request' \in [Subs -> SiteRequests] /\ request[s].at = "preparing"
      /\ request'[s].at \in {"refused", "submit"}
      /\ \A x \in Subs : x # s => request'[x] = request[x]
  BY StepIs DEF SiteInv, Typed, HubTyped, Received
<1>2. Typed'
  BY <1>1 DEF SiteInv, Typed, CopyTyped, HubTyped, ScreenTyped, PagesTyped, ChecksTyped, Received, browser
<1>3. Forwarded(s)'
  BY <1>1 DEF Forwarded
<1> QED BY <1>1, <1>2, <1>3, RequestMoves DEF Received, browser

\* The hub may have the envelope although the site was not told; never the other way round.
LEMMA SubmitIs ==
  ASSUME SiteInv, NEW s \in Subs, Submit(s)
  PROVE  SiteInv'
<1>1. request \in [Subs -> SiteRequests] /\ hub \in [Subs -> Submissions]
  BY DEF SiteInv, Typed, HubTyped
<1> DEFINE after == IF request[s].file THEN "upload" ELSE "ok"
<1>2. CASE Done(s, "submit", after) /\
           hub' = [hub EXCEPT ![s] = [held |-> TRUE, file |-> IF request[s].file THEN "missing" ELSE "none"]]
  <2>1. /\ request' \in [Subs -> SiteRequests] /\ request[s].at = "submit"
        /\ request'[s].at \in {after, "failed"} /\ request'[s].file = request[s].file
        /\ \A x \in Subs : x # s => request'[x] = request[x]
    BY <1>1, <1>2, StepIs DEF Done
  <2>2. hub' \in [Subs -> Submissions] /\ hub'[s].held /\ \A x \in Subs : x # s => hub'[x] = hub[x]
    BY <1>1, <1>2 DEF Submissions
  <2>3. Typed'
    BY <2>1, <2>2 DEF SiteInv, Typed, CopyTyped, HubTyped, ScreenTyped, PagesTyped, ChecksTyped, Submit, server,
                      browser
  <2>4. Forwarded(s)'
    BY <2>1, <2>2 DEF Forwarded, Kept
  <2> QED BY <2>1, <2>2, <2>3, <2>4, RequestMoves DEF Submit, browser
<1>3. CASE NotDone(s, "submit")
  <2>1. /\ request' \in [Subs -> SiteRequests] /\ request[s].at = "submit" /\ request'[s].at \in {"refused", "failed"}
        /\ \A x \in Subs : x # s => request'[x] = request[x]
    BY <1>1, <1>3, StepIs DEF NotDone
  <2>2. Typed'
    BY <2>1, <1>3 DEF SiteInv, Typed, CopyTyped, HubTyped, ScreenTyped, PagesTyped, ChecksTyped, NotDone, Submit,
                      server, browser
  <2>3. Forwarded(s)'
    BY <2>1 DEF Forwarded
  <2> QED BY <1>3, <2>1, <2>2, <2>3, RequestMoves DEF NotDone, Submit, browser
<1> QED BY <1>2, <1>3 DEF Submit

\* The site is told only what is stored.
LEMMA UploadIs ==
  ASSUME SiteInv, NEW s \in Subs, Upload(s)
  PROVE  SiteInv'
<1>1. request \in [Subs -> SiteRequests] /\ hub \in [Subs -> Submissions]
  BY DEF SiteInv, Typed, HubTyped
<1>2. CASE Done(s, "upload", "ok") /\ hub' = [hub EXCEPT ![s].file = "stored"]
  <2>1. /\ request' \in [Subs -> SiteRequests] /\ request[s].at = "upload" /\ request'[s].at \in {"ok", "failed"}
        /\ \A x \in Subs : x # s => request'[x] = request[x]
    BY <1>1, <1>2, StepIs DEF Done
  <2>2. hub[s].held
    BY <2>1 DEF SiteInv, Forwarded
  <2>3. /\ hub' \in [Subs -> Submissions] /\ hub'[s].held /\ hub'[s].file = "stored"
        /\ \A x \in Subs : x # s => hub'[x] = hub[x]
    BY <1>1, <1>2, <2>2 DEF Submissions
  <2>4. Typed'
    BY <2>1, <2>3 DEF SiteInv, Typed, CopyTyped, HubTyped, ScreenTyped, PagesTyped, ChecksTyped, Upload, server,
                      browser
  <2>5. Forwarded(s)'
    BY <2>1, <2>3 DEF Forwarded, Kept
  <2> QED BY <2>1, <2>3, <2>4, <2>5, RequestMoves DEF Upload, browser
<1>3. CASE NotDone(s, "upload")
  <2>1. /\ request' \in [Subs -> SiteRequests] /\ request[s].at = "upload" /\ request'[s].at \in {"refused", "failed"}
        /\ \A x \in Subs : x # s => request'[x] = request[x]
    BY <1>1, <1>3, StepIs DEF NotDone
  <2>2. Typed'
    BY <2>1, <1>3 DEF SiteInv, Typed, CopyTyped, HubTyped, ScreenTyped, PagesTyped, ChecksTyped, NotDone, Upload,
                      server, browser
  <2>3. Forwarded(s)'
    BY <2>1 DEF Forwarded
  <2> QED BY <1>3, <2>1, <2>2, <2>3, RequestMoves DEF NotDone, Upload, browser
<1> QED BY <1>2, <1>3 DEF Upload

\* The one step that shows a receipt.
LEMMA AnsweredIs ==
  ASSUME SiteInv, NEW s \in Subs, Answered(s)
  PROVE  SiteInv'
<1>1. /\ request' \in [Subs -> SiteRequests] /\ request'[s].at = "over" /\ request'[s].file = request[s].file
      /\ request[s].at # "over" /\ hub' = hub
      /\ \A x \in Subs : x # s => request'[x] = request[x] /\ hub'[x] = hub[x]
  BY DEF SiteInv, Typed, HubTyped, SiteRequests, Answered
<1>2. Forwarded(s)'
  BY <1>1 DEF Forwarded
<1>3. CASE ~request[s].lost /\ request[s].at = "ok"
  <2>1. ScreenTyped' /\ ChecksTyped' /\ shown' = [page |-> "receipt", of |-> s]
    BY <1>3, ShowReceiptIs DEF Answered
  <2>2. Typed'
    BY <1>1, <2>1 DEF SiteInv, Typed, CopyTyped, HubTyped, PagesTyped, Answered, server
  <2>3. \A x \in Subs : Forwarded(x)'
    BY <1>1, <1>2, OthersStay DEF SiteInv
  <2>4. Kept(s)'
    BY <1>1, <1>3 DEF SiteInv, Forwarded, Kept
  <2>5. ReceiptTrue'
    BY <1>1, <2>1, <2>4 DEF ReceiptTrue, Kept
  <2> QED BY <2>2, <2>3, <2>5 DEF SiteInv
<1>4. CASE request[s].lost \/ request[s].at # "ok"
  <2>1. ScreenTyped' /\ ChecksTyped' /\ shown' = shown
    <3>1. CASE request[s].lost
      BY <3>1 DEF SiteInv, Typed, ScreenTyped, ChecksTyped, Answered
    <3>2. CASE ~request[s].lost /\ request[s].at # "ok"
      <4>1. PICK words \in {"error", "not_saved"} : Tell(s, words)
        BY <3>2 DEF Answered
      <4> QED BY <3>2, <4>1, TellIs DEF SiteInv, Typed, ChecksTyped, Answered
    <3> QED BY <1>4, <3>1, <3>2
  <2>2. Typed'
    BY <1>1, <2>1 DEF SiteInv, Typed, CopyTyped, HubTyped, PagesTyped, Answered, server
  <2> QED BY <1>1, <1>2, <2>1, <2>2, RequestMoves
<1> QED BY <1>3, <1>4

\* The browser has lost the request, which goes on as it was.
LEMMA DisconnectedIs ==
  ASSUME SiteInv, NEW s \in Subs, Disconnected(s)
  PROVE  SiteInv'
<1>1. /\ request' \in [Subs -> SiteRequests] /\ request'[s].at = request[s].at /\ request'[s].file = request[s].file
      /\ request[s].at # "over" /\ hub' = hub
      /\ \A x \in Subs : x # s => request'[x] = request[x] /\ hub'[x] = hub[x]
  BY DEF SiteInv, Typed, HubTyped, SiteRequests, Disconnected
<1>2. Forwarded(s)'
  BY <1>1 DEF SiteInv, Forwarded, Kept
<1>3. ScreenTyped'
  BY TellIs DEF SiteInv, Typed, Disconnected
<1>4. Typed'
  BY <1>1, <1>3 DEF SiteInv, Typed, CopyTyped, HubTyped, PagesTyped, ChecksTyped, Disconnected, server
<1> QED BY <1>1, <1>2, <1>4, RequestMoves DEF Disconnected

-----------------------------------------------------------------------------
(* The invariant holds *)

LEMMA InitIs == SiteInit => SiteInv
<1> SUFFICES ASSUME SiteInit PROVE SiteInv
  OBVIOUS
<1>1. CopyTyped
  BY DEF SiteInit, CopyTyped, Gens
<1>2. HubTyped /\ \A s \in Subs : Forwarded(s)
  BY DEF SiteInit, HubTyped, Submissions, SiteRequests, NotSent, Forwarded
<1>3. ScreenTyped /\ ChecksTyped /\ ReceiptTrue
  BY DEF SiteInit, ScreenTyped, Screens, FormStates, NoForm, Page, ChecksTyped, Answers, NoAnswer, ReceiptTrue
<1>4. PagesTyped
  BY DEF SiteInit, PagesTyped, Waits, Gens
<1> QED BY <1>1, <1>2, <1>3, <1>4 DEF SiteInv, Typed

LEMMA StutterIs ==
  ASSUME SiteInv, UNCHANGED siteVars
  PROVE  SiteInv'
<1>1. Typed'
  BY DEF SiteInv, Typed, CopyTyped, HubTyped, ScreenTyped, PagesTyped, ChecksTyped, siteVars, server, browser
<1> QED BY <1>1, BrowserIs DEF siteVars, browser

LEMMA LoadIs ==
  ASSUME SiteInv, Publish \/ Refresh \/ Load \/ NextHour
  PROVE  SiteInv'
<1>1. CASE Publish
  BY <1>1, PublishIs, BrowserIs DEF SiteInv, Publish, browser
<1>2. CASE Refresh
  BY <1>2, RefreshIs, BrowserIs DEF SiteInv, Refresh, browser
<1>3. CASE Load
  <2>1. PICK g \in Gens : Refreshed(g) \/ RefreshFails(g)
    BY <1>3 DEF Load, Gens
  <2>2. CASE Refreshed(g)
    BY <2>2, RefreshedIs, BrowserIs DEF SiteInv, Refreshed, browser
  <2>3. CASE RefreshFails(g)
    BY <2>3, RefreshFailsIs, BrowserIs DEF SiteInv, RefreshFails, browser
  <2> QED BY <2>1, <2>2, <2>3
<1>4. CASE NextHour
  BY <1>4, NextHourIs, BrowserIs DEF SiteInv, NextHour, browser
<1> QED BY <1>1, <1>2, <1>3, <1>4

LEMMA DrawIs ==
  ASSUME SiteInv, Draw
  PROVE  SiteInv'
<1>1. ASSUME NEW p \in Waits, Arrives(p) PROVE SiteInv'
  BY <1>1, ArrivesIs, BrowserIs DEF SiteInv, Arrives
<1>2. ASSUME NEW p \in Listed, NEW g \in Gens, DetailsArrive(p, g) PROVE SiteInv'
  BY <1>2, DetailsArriveIs, BrowserIs DEF SiteInv, DetailsArrive
<1> QED BY <1>1, <1>2 DEF Draw, Waits, Gens

LEMMA VisitIs ==
  ASSUME SiteInv, Visit
  PROVE  SiteInv'
<1>1. ASSUME NEW p \in Pages, Go(p) PROVE SiteInv'
  BY <1>1, GoIs, BrowserIs DEF SiteInv, Go
<1>2. ASSUME NEW doc \in BOOLEAN, Fill(doc) PROVE SiteInv'
  BY <1>2, FillIs, BrowserIs DEF SiteInv, Fill
<1>3. ASSUME NEW s \in Subs, Check(s) PROVE SiteInv'
  BY <1>3, CheckIs, BrowserIs DEF SiteInv, Check
<1> QED BY <1>1, <1>2, <1>3, SendIs DEF Visit

LEMMA NextIs ==
  ASSUME SiteInv, [SiteNext]_siteVars
  PROVE  SiteInv'
<1>1. CASE Publish \/ Refresh \/ Load \/ NextHour
  BY <1>1, LoadIs
<1>2. CASE Draw
  BY <1>2, DrawIs
<1>3. CASE Visit
  BY <1>3, VisitIs
<1>4. ASSUME NEW s \in Subs, Forward(s) PROVE SiteInv'
  BY <1>4, PrepareFailsIs, ReceivedIs, SubmitIs, UploadIs, AnsweredIs DEF Forward
<1>5. ASSUME NEW s \in Subs, Checked(s) PROVE SiteInv'
  BY <1>5, CheckedIs, BrowserIs DEF SiteInv, Checked
<1>6. CASE UNCHANGED siteVars
  BY <1>6, StutterIs
<1> QED BY <1>1, <1>2, <1>3, <1>4, <1>5, <1>6, DisconnectedIs DEF SiteNext

\* SiteInit is in SiteInv and every step stays in it.
THEOREM SiteInvariant == SiteSpec => []SiteInv
BY InitIs, NextIs, PTL DEF SiteSpec

-----------------------------------------------------------------------------
(* Theorems *)

\* The state of the server, of the hub and of the browser has its type; the generation that is served (server.js
\* state) is one the hub has published, however many loads overlap and end in whatever order.
THEOREM SiteTypeCorrect == SiteSpec => []SiteTypeOK
<1>1. SiteInv => SiteTypeOK
  BY DEF SiteInv, Typed, CopyTyped, HubTyped, ScreenTyped, SiteTypeOK, Gens, Submissions, SiteRequests, Screens,
         FormStates
<1> QED BY <1>1, SiteInvariant, PTL

\* A receipt a visitor is shown is of a submission the hub holds, with the file that was sent with it (app.js
\* receiptBox, server.js forward), for any number of submissions under way, calls that fail and lost connections.
THEOREM ReceiptsAreGood == SiteSpec => []ReceiptIsGood
<1>1. SiteInv => ReceiptIsGood
  BY DEF SiteInv, ReceiptTrue, Kept, ReceiptIsGood
<1> QED BY <1>1, SiteInvariant, PTL
=============================================================================
