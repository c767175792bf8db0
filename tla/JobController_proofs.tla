-------------------------- MODULE JobController_proofs -------------------------
(***************************************************************************)
(* Interactive jobs, for any sizes of the buffer, the pipes and the         *)
(* streams: all that the job wrote is stored, and copied by the client, the *)
(* controller stays for its client, and there is no deadlock but the named. *)
(***************************************************************************)
EXTENDS JobController, TLAPS

(* The wrapper is started once, after the submission, and starts the job.  *)
Started ==
  /\ stage \in {"starting", "fetching", "waiting", "submitting"} => wrapper.at = "none" /\ batch.state = "none"
  /\ wrapper.at = "none" => job = "none"

(* What a stream holds, in its file and its pipe, with what the job is     *)
(* about to write, is what the job writes to it in all.                    *)
Bounded ==
  /\ \A s \in Stream : file[s] + pipe[s] <= MaxOut
  /\ job \in Stream => file[job] + pipe[job] < MaxOut

(* The last pass begins after the end of the job; it empties the pipes one *)
(* by one, and after it nothing is left to read.                           *)
LastPass ==
  /\ wrapper.late => job = "exited"
  /\ wrapper.at = "end" => wrapper.late
  /\ wrapper.late /\ wrapper.at = "read" => \A s \in Stream \ wrapper.ready : pipe[s] = 0
  /\ wrapper.late /\ wrapper.at \in {"feed", "check", "end"} => \A s \in Stream : pipe[s] = 0
  /\ exitcode => wrapper.at = "gone" /\ job = "exited" /\ \A s \in Stream : pipe[s] = 0

(* Nobody takes the job for finished while the wrapper runs. *)
Ended ==
  /\ batch.done \/ client \in {"files", "done"} \/ stage \in {"storing", "draining", "exited"}
       => wrapper.at = "gone"
  /\ client = "done" => fetched = file

served == client \in {"output", "stdin", "state", "files"}

(* A client that is served is counted; main goes on for a client that has  *)
(* been counted, and leaves when there is none.                            *)
Connected ==
  /\ served => stage # "starting" /\ (alive => clientConnected = 1)
  /\ client \in {"starting", "connecting"} =>
        clientConnected = 0 /\ stage \in {"starting", "fetching", "waiting", "failed"}
  /\ stage = "exited" => gone

IInv == TypeOK /\ Started /\ Bounded /\ LastPass /\ Ended /\ Connected

-----------------------------------------------------------------------------
(* The buffer *)

(* What one read takes: all there is, or the buffer full. *)
LEMMA ReadFacts ==
  ASSUME NEW c \in Nat \ {0}, NEW p \in Nat
  PROVE  /\ Min({c, p}) \in 0..p
         /\ Min({c, p}) # c => Min({c, p}) = p
<1>1. CASE c <= p
  <2>1. Min({c, p}) = c
    BY <1>1 DEF Min
  <2>2. QED BY <1>1, <2>1
<1>2. CASE p < c
  <2>1. Min({c, p}) = p
    BY <1>2 DEF Min
  <2>2. QED BY <2>1
<1>3. QED BY <1>1, <1>2

(* A stream is not a name of anything else that the job may do. *)
LEMMA StreamFacts ==
  /\ Stream = {"stdout", "stderr"}
  /\ \A s \in Stream : s \notin {"none", "thinking", "stdin", "exited"}
BY DEF Stream

-----------------------------------------------------------------------------
(* The job *)

LEMMA JobInv ==
  ASSUME IInv, Job
  PROVE  IInv'
<1>0. /\ TypeOK /\ Started /\ Bounded /\ LastPass /\ Ended /\ Connected
      /\ file \in [Stream -> 0..MaxOut] /\ pipe \in [Stream -> 0..Pipe]
  BY DEF IInv, TypeOK
<1>1. UNCHANGED <<batch, stage, clientConnected, client, fetched, file, stdin, exitcode, wrapper>>
  BY DEF Job, jobThinks, jobReads, jobWrites, controller, theClient, files
<1>2. job \notin {"none", "exited"}
  BY StreamFacts DEF Job, jobThinks, jobReads, jobWrites
<1>3. ~wrapper.late /\ wrapper.at # "none" /\ wrapper.at # "end" /\ ~exitcode
  BY <1>0, <1>2 DEF Started, LastPass
<1>4. Started' /\ LastPass' /\ Ended' /\ Connected'
  <2>1. Started' /\ LastPass'
    BY <1>0, <1>1, <1>3 DEF Started, LastPass
  <2>2. Ended' /\ Connected'
    BY <1>0, <1>1 DEF Ended, Connected, served, alive, gone
  <2>3. QED BY <2>1, <2>2
<1>5. CASE jobThinks
  <2>1. pipe' = pipe /\ pipeIn' = pipeIn /\ job' \in Stream \cup {"stdin", "exited"}
    BY <1>5 DEF jobThinks
  <2>2. TypeOK'
    BY <1>0, <1>1, <2>1 DEF TypeOK
  <2>3. Bounded'
    BY <1>0, <1>1, <1>5, <2>1, StreamFacts DEF Bounded, jobThinks
  <2>4. QED BY <1>4, <2>2, <2>3 DEF IInv
<1>6. CASE jobReads
  <2>1. pipe' = pipe /\ job' = "thinking" /\ pipeIn > 0 /\ pipeIn' = pipeIn - 1
    BY <1>6 DEF jobReads
  <2>2. pipeIn' \in 0..Pipe
    BY <1>0, <2>1, SizeAssumption DEF TypeOK
  <2>3. TypeOK'
    BY <1>0, <1>1, <2>1, <2>2 DEF TypeOK
  <2>4. Bounded'
    BY <1>0, <1>1, <2>1, StreamFacts DEF Bounded
  <2>5. QED BY <1>4, <2>3, <2>4 DEF IInv
<1>7. ASSUME NEW s \in Stream, jobWrites(s)
      PROVE  IInv'
  <2>1. /\ job = s /\ pipe[s] < Pipe /\ pipe' = [pipe EXCEPT ![s] = @ + 1]
        /\ job' = "thinking" /\ pipeIn' = pipeIn
    BY <1>7 DEF jobWrites
  <2>2. pipe' \in [Stream -> 0..Pipe]
    BY <1>0, <2>1, SizeAssumption
  <2>3. TypeOK'
    BY <1>0, <1>1, <2>1, <2>2 DEF TypeOK
  <2>4. ASSUME NEW t \in Stream
        PROVE  file'[t] + pipe'[t] <= MaxOut
    <3>1. file[t] \in Nat /\ pipe[t] \in Nat /\ MaxOut \in Nat
      BY <1>0, SizeAssumption
    <3>2. pipe'[t] = IF t = s THEN pipe[t] + 1 ELSE pipe[t]
      BY <1>0, <2>1
    <3>3. file[t] + pipe[t] <= MaxOut /\ (t = s => file[t] + pipe[t] < MaxOut)
      BY <1>0, <2>1 DEF Bounded
    <3>4. QED BY <1>1, <3>1, <3>2, <3>3
  <2>5. Bounded'
    BY <2>1, <2>4, StreamFacts DEF Bounded
  <2>6. QED BY <1>4, <2>3, <2>5 DEF IInv
<1>8. QED BY <1>5, <1>6, <1>7 DEF Job

-----------------------------------------------------------------------------
(* The wrapper *)

(* A step that changes the wrapper alone, and does not bring it to its end. *)
LEMMA WrapperOnlyInv ==
  ASSUME IInv, wrapperOnly, UNCHANGED files, wrapper' \in Wrapper,
         wrapper.at \notin {"none", "gone"}, wrapper'.at \notin {"none", "gone"},
         LastPass'
  PROVE  IInv'
<1>1. /\ TypeOK /\ Started /\ Bounded /\ LastPass /\ Ended /\ Connected
      /\ UNCHANGED <<batch, stage, clientConnected, client, fetched, file, stdin, exitcode, job, pipe, pipeIn>>
  BY DEF IInv, wrapperOnly, controller, theClient, files, theJob
<1>2. TypeOK'
  BY <1>1 DEF TypeOK
<1>3. Started' /\ Bounded' /\ Ended'
  BY <1>1 DEF Started, Bounded, Ended
<1>4. Connected'
  BY <1>1 DEF Connected, served, alive, gone
<1>5. QED BY <1>1, <1>2, <1>3, <1>4 DEF IInv

LEMMA CheckInv ==
  ASSUME IInv, check
  PROVE  IInv'
<1>1. /\ TypeOK /\ LastPass /\ wrapper \in Wrapper
      /\ wrapper.at = "check" /\ wrapperOnly /\ UNCHANGED files
      /\ UNCHANGED <<exitcode, job, pipe>>
  BY DEF IInv, TypeOK, check, wrapperOnly, files, theJob
<1>2. CASE wrapper.late
  <2>1. wrapper' = [wrapper EXCEPT !.at = "end"]
    BY <1>2 DEF check
  <2>2. wrapper' \in Wrapper /\ wrapper'.at = "end" /\ wrapper'.late
    BY <1>1, <1>2, <2>1 DEF Wrapper
  <2>3. LastPass'
    BY <1>1, <1>2, <2>2 DEF LastPass
  <2>4. QED BY <1>1, <2>2, <2>3, WrapperOnlyInv
<1>3. CASE ~wrapper.late
  <2>1. wrapper' = [wrapper EXCEPT !.at = "select", !.late = job = "exited"]
    BY <1>3 DEF check
  <2>2. wrapper' \in Wrapper /\ wrapper'.at = "select" /\ (wrapper'.late <=> job = "exited")
    BY <1>1, <2>1 DEF Wrapper
  <2>3. LastPass'
    BY <1>1, <2>2 DEF LastPass
  <2>4. QED BY <1>1, <2>2, <2>3, WrapperOnlyInv
<1>4. QED BY <1>2, <1>3

(* After the end of the job every stream is ready, with something in its   *)
(* pipe or with its end.                                                   *)
LEMMA SelectInv ==
  ASSUME IInv, select
  PROVE  IInv'
<1>1. /\ TypeOK /\ LastPass /\ wrapper \in Wrapper
      /\ wrapper.at = "select" /\ wrapperOnly /\ UNCHANGED files
      /\ UNCHANGED <<exitcode, job, pipe>>
      /\ wrapper' = [wrapper EXCEPT !.at = "read",
                                    !.ready = {s \in Stream : pipe[s] > 0 \/ job = "exited"}]
  BY DEF IInv, TypeOK, select, wrapperOnly, files, theJob
<1>2. /\ wrapper' \in Wrapper /\ wrapper'.at = "read" /\ wrapper'.late = wrapper.late
      /\ wrapper'.ready = {s \in Stream : pipe[s] > 0 \/ job = "exited"}
  BY <1>1 DEF Wrapper
<1>3. LastPass'
  BY <1>1, <1>2 DEF LastPass
<1>4. QED BY <1>1, <1>2, <1>3, WrapperOnlyInv

(* A read moves what it takes from the pipe to the file; a stream that is   *)
(* no longer ready after the job has ended is empty.                       *)
LEMMA ReadInv ==
  ASSUME IInv, read
  PROVE  IInv'
<1> DEFINE s == reading
           n == Min({Chunk, pipe[s]})
<1>1. /\ TypeOK /\ Started /\ Bounded /\ LastPass /\ Ended /\ Connected
      /\ wrapper \in Wrapper
      /\ file \in [Stream -> 0..MaxOut] /\ pipe \in [Stream -> 0..Pipe]
  BY DEF IInv, TypeOK
<1>2. /\ wrapper.at = "read" /\ wrapper.ready # {}
      /\ file' = [file EXCEPT ![s] = @ + n]
      /\ pipe' = [pipe EXCEPT ![s] = @ - n]
      /\ wrapper' = IF n = Chunk THEN wrapper ELSE [wrapper EXCEPT !.ready = @ \ {s}]
      /\ UNCHANGED <<batch, stage, clientConnected, client, fetched, stdin, exitcode, job, pipeIn>>
  BY DEF read, controller, theClient
<1>3. s \in Stream
  BY DEF reading, Stream
<1>4. pipe[s] \in Nat /\ file[s] \in Nat /\ MaxOut \in Nat /\ pipe[s] <= Pipe /\ Pipe \in Nat
  BY <1>1, <1>3, SizeAssumption
<1>5. n \in 0..pipe[s] /\ (n # Chunk => n = pipe[s])
  BY <1>4, SizeAssumption, ReadFacts
<1> HIDE DEF s, n
<1>6. /\ wrapper' \in Wrapper /\ wrapper'.at = "read" /\ wrapper'.late = wrapper.late
      /\ wrapper'.ready = wrapper.ready \/ (n = pipe[s] /\ wrapper'.ready = wrapper.ready \ {s})
  BY <1>1, <1>2, <1>5 DEF Wrapper
<1>7. ASSUME NEW t \in Stream
      PROVE  /\ file'[t] \in 0..MaxOut /\ pipe'[t] \in 0..Pipe
             /\ file'[t] + pipe'[t] = file[t] + pipe[t]
             /\ pipe'[t] <= pipe[t]
             /\ t = s => pipe'[t] = pipe[t] - n
  <2>1. file[t] \in Nat /\ pipe[t] \in Nat /\ pipe[t] <= Pipe /\ file[t] + pipe[t] <= MaxOut
    BY <1>1, SizeAssumption DEF Bounded
  <2>2. /\ file'[t] = IF t = s THEN file[t] + n ELSE file[t]
        /\ pipe'[t] = IF t = s THEN pipe[t] - n ELSE pipe[t]
    BY <1>1, <1>2
  <2>3. QED BY <1>4, <1>5, <2>1, <2>2
<1>8. file' \in [Stream -> 0..MaxOut] /\ pipe' \in [Stream -> 0..Pipe]
  BY <1>1, <1>2, <1>7
<1>9. TypeOK'
  BY <1>1, <1>2, <1>6, <1>8 DEF TypeOK
<1>10. Bounded'
  BY <1>1, <1>2, <1>7 DEF Bounded
<1>11. LastPass'
  <2>1. ASSUME wrapper.late, NEW t \in Stream \ wrapper'.ready
        PROVE  pipe'[t] = 0
    <3>1. CASE t \in wrapper.ready
      <4>1. t = s /\ n = pipe[s]
        BY <1>6, <2>1, <3>1
      <4>2. QED BY <1>4, <1>7, <4>1
    <3>2. CASE t \notin wrapper.ready
      <4>1. pipe[t] = 0 /\ pipe'[t] \in Nat /\ pipe'[t] <= pipe[t]
        BY <1>1, <1>2, <1>7, <2>1, <3>2, SizeAssumption DEF LastPass
      <4>2. QED BY <4>1
    <3>3. QED BY <3>1, <3>2
  <2>2. QED BY <1>1, <1>2, <1>6, <2>1 DEF LastPass
<1>12. Started' /\ Ended' /\ Connected'
  <2>1. Started'
    BY <1>1, <1>2, <1>6 DEF Started
  <2>2. Ended'
    BY <1>1, <1>2 DEF Ended
  <2>3. Connected'
    BY <1>1, <1>2 DEF Connected, served, alive, gone
  <2>4. QED BY <2>1, <2>2, <2>3
<1>13. QED BY <1>9, <1>10, <1>11, <1>12 DEF IInv

(* The pass over the streams ends, in the end with empty pipes. *)
LEMMA LookForInputInv ==
  ASSUME IInv, lookForInput
  PROVE  IInv'
<1>1. /\ TypeOK /\ LastPass /\ wrapper \in Wrapper /\ stdin \in 0..MaxIn
      /\ wrapper.at = "read" /\ wrapper.ready = {} /\ wrapperOnly /\ UNCHANGED files
      /\ UNCHANGED <<exitcode, job, pipe>>
      /\ wrapper' = [wrapper EXCEPT !.at = "feed", !.upto = stdin]
  BY DEF IInv, TypeOK, lookForInput, wrapperOnly, files, theJob
<1>2. wrapper' \in Wrapper /\ wrapper'.at = "feed" /\ wrapper'.late = wrapper.late
  BY <1>1 DEF Wrapper
<1>3. LastPass'
  BY <1>1, <1>2 DEF LastPass
<1>4. QED BY <1>1, <1>2, <1>3, WrapperOnlyInv

LEMMA FeedInv ==
  ASSUME IInv, feed
  PROVE  IInv'
<1>1. /\ TypeOK /\ Started /\ Bounded /\ LastPass /\ Ended /\ Connected
      /\ wrapper \in Wrapper /\ wrapper.at = "feed" /\ wrapper.last < wrapper.upto
      /\ wrapper.last \in Nat /\ wrapper.upto \in 0..MaxIn
      /\ UNCHANGED <<batch, stage, clientConnected, client, fetched, file, stdin, exitcode, job, pipe>>
  BY DEF IInv, TypeOK, Wrapper, feed, controller, theClient, files
<1>2. /\ wrapper' \in Wrapper /\ wrapper'.at \in {"feed", "gone"} /\ wrapper'.late = wrapper.late
      /\ pipeIn' \in 0..Pipe
  <2>1. CASE /\ pipeIn < Pipe /\ pipeIn' = pipeIn + 1
             /\ wrapper' = [wrapper EXCEPT !.last = @ + 1]
    <3>1. wrapper.last + 1 \in 0..MaxIn
      BY <1>1, SizeAssumption
    <3>2. wrapper' \in Wrapper /\ wrapper'.at = "feed" /\ wrapper'.late = wrapper.late
      BY <1>1, <2>1, <3>1 DEF Wrapper
    <3>3. QED BY <1>1, <2>1, <3>2, SizeAssumption DEF TypeOK
  <2>2. CASE wrapper' = [wrapper EXCEPT !.at = "gone"] /\ UNCHANGED pipeIn
    BY <1>1, <2>2 DEF Wrapper, TypeOK
  <2>3. QED BY <2>1, <2>2 DEF feed
<1>3. TypeOK'
  BY <1>1, <1>2 DEF TypeOK
<1>4. Started' /\ Bounded' /\ Ended'
  BY <1>1, <1>2 DEF Started, Bounded, Ended
<1>5. LastPass'
  BY <1>1, <1>2 DEF LastPass
<1>6. Connected'
  BY <1>1 DEF Connected, served, alive, gone
<1>7. QED BY <1>3, <1>4, <1>5, <1>6 DEF IInv

LEMMA FedInv ==
  ASSUME IInv, fed
  PROVE  IInv'
<1>1. /\ TypeOK /\ LastPass /\ wrapper \in Wrapper
      /\ wrapper.at = "feed" /\ wrapperOnly /\ UNCHANGED files
      /\ UNCHANGED <<exitcode, job, pipe>>
      /\ wrapper' = [wrapper EXCEPT !.at = "check"]
  BY DEF IInv, TypeOK, fed, wrapperOnly, files, theJob
<1>2. wrapper' \in Wrapper /\ wrapper'.at = "check" /\ wrapper'.late = wrapper.late
  BY <1>1 DEF Wrapper
<1>3. LastPass'
  BY <1>1, <1>2 DEF LastPass
<1>4. QED BY <1>1, <1>2, <1>3, WrapperOnlyInv

LEMMA SaveExitCodeInv ==
  ASSUME IInv, saveExitCode
  PROVE  IInv'
<1>1. /\ TypeOK /\ Started /\ Bounded /\ LastPass /\ Ended /\ Connected /\ wrapper \in Wrapper
      /\ wrapper.at = "end" /\ exitcode' = TRUE /\ wrapper' = [wrapper EXCEPT !.at = "gone"]
      /\ UNCHANGED <<batch, stage, clientConnected, client, fetched, file, stdin, job, pipe, pipeIn>>
  BY DEF IInv, TypeOK, saveExitCode, wrapperOnly, controller, theClient, theJob
<1>2. wrapper' \in Wrapper /\ wrapper'.at = "gone" /\ wrapper'.late = wrapper.late
  BY <1>1 DEF Wrapper
<1>3. TypeOK'
  BY <1>1, <1>2 DEF TypeOK
<1>4. Started' /\ Bounded' /\ Ended'
  BY <1>1, <1>2 DEF Started, Bounded, Ended
<1>5. LastPass'
  BY <1>1, <1>2 DEF LastPass
<1>6. Connected'
  BY <1>1 DEF Connected, served, alive, gone
<1>7. QED BY <1>3, <1>4, <1>5, <1>6 DEF IInv

-----------------------------------------------------------------------------
(* The batch system *)

(* Whoever starts the wrapper, it begins with the job or fails. *)
LEMMA WrapperBegins ==
  ASSUME IInv, wrapper.at = "none", startWrapper \/ wrapperFails,
         UNCHANGED <<fetched, file, stdin, exitcode, pipe, pipeIn>>
  PROVE  /\ wrapper' \in Wrapper /\ wrapper'.at \in {"check", "gone"}
         /\ job' \in {"none", "thinking"}
         /\ Bounded' /\ LastPass'
<1>1. /\ TypeOK /\ Bounded /\ wrapper \in Wrapper /\ job = "none" /\ ~wrapper.late /\ ~exitcode
  BY DEF IInv, TypeOK, Started, LastPass
<1>2. /\ wrapper' \in Wrapper /\ wrapper'.at \in {"check", "gone"} /\ wrapper'.late = wrapper.late
      /\ job' \in {"none", "thinking"}
  BY <1>1 DEF startWrapper, wrapperFails, Wrapper
<1>3. Bounded'
  BY <1>1, <1>2, StreamFacts DEF Bounded
<1>4. LastPass'
  BY <1>1, <1>2 DEF LastPass
<1>5. QED BY <1>2, <1>3, <1>4

LEMMA PbsStartsInv ==
  ASSUME IInv, pbsStarts
  PROVE  IInv'
<1>1. /\ TypeOK /\ Started /\ Ended /\ Connected
      /\ wrapper.at = "none" /\ batch.state = "listed" /\ (startWrapper \/ wrapperFails)
      /\ UNCHANGED <<batch, stage, clientConnected, client, fetched, file, stdin, exitcode, pipe, pipeIn>>
  BY DEF IInv, pbsStarts, controller, theClient, files
<1>2. /\ wrapper' \in Wrapper /\ wrapper'.at \in {"check", "gone"}
      /\ job' \in {"none", "thinking"} /\ Bounded' /\ LastPass'
  BY <1>1, WrapperBegins
<1>3. TypeOK'
  BY <1>1, <1>2 DEF TypeOK
<1>4. Started' /\ Ended'
  BY <1>1, <1>2 DEF Started, Ended
<1>5. Connected'
  BY <1>1 DEF Connected, served, alive, gone
<1>6. QED BY <1>2, <1>3, <1>4, <1>5 DEF IInv

LEMMA PbsEndsInv ==
  ASSUME IInv, pbsEnds
  PROVE  IInv'
<1>1. /\ TypeOK /\ Started /\ Bounded /\ LastPass /\ Ended /\ Connected
      /\ batch \in [system : {"none", "pbs"}, state : {"none", "listed", "left", "refused"}, done : BOOLEAN]
      /\ wrapper.at = "gone"
      /\ UNCHANGED <<stage, clientConnected, client, fetched, file, stdin, exitcode,
                     wrapper, job, pipe, pipeIn>>
  BY DEF IInv, TypeOK, pbsEnds, controller, theClient, files, theJob
<1>2. batch' \in [system : {"none", "pbs"}, state : {"none", "listed", "left", "refused"}, done : BOOLEAN]
  BY <1>1 DEF pbsEnds
<1>3. TypeOK'
  BY <1>1, <1>2 DEF TypeOK
<1>4. Started' /\ Bounded' /\ Ended'
  BY <1>1 DEF Started, Bounded, Ended
<1>5. LastPass'
  BY <1>1 DEF LastPass
<1>6. Connected'
  BY <1>1 DEF Connected, served, alive, gone
<1>7. QED BY <1>3, <1>4, <1>5, <1>6 DEF IInv

(* A job is reported as finished only when its wrapper is gone: without a  *)
(* batch system it is waited for, with one it is its end that is noted.    *)
LEMMA FinishedIsGone ==
  ASSUME IInv, getJobStatus = "finished"
  PROVE  wrapper.at = "gone"
<1>1. Ended /\ batch.system \in {"none", "pbs"}
      /\ batch.state \in {"none", "listed", "left", "refused"}
  BY DEF IInv, TypeOK
<1>2. batch.system = "none" \/ batch.done
  <2>1. CASE batch.state \in {"none", "listed"}
    BY <1>1, <2>1 DEF getJobStatus
  <2>2. CASE batch.state \notin {"none", "listed"}
    BY <1>1, <2>2 DEF getJobStatus
  <2>3. QED BY <2>1, <2>2
<1>3. CASE batch.system = "none"
  BY <1>3 DEF getJobStatus
<1>4. CASE batch.done
  BY <1>1, <1>4 DEF Ended
<1>5. QED BY <1>2, <1>3, <1>4

-----------------------------------------------------------------------------
(* The controller's main thread *)

(* A step from one stage to another that starts nothing. *)
LEMMA StageInv ==
  ASSUME IInv, mainOnly, UNCHANGED <<batch, wrapper, job>>, TypeOK', Started', Ended', Connected'
  PROVE  IInv'
<1>1. /\ Bounded /\ LastPass
      /\ UNCHANGED <<exitcode, file, wrapper, job, pipe>>
  BY DEF IInv, mainOnly, files
<1>2. Bounded' /\ LastPass'
  BY <1>1 DEF Bounded, LastPass
<1>3. QED BY <1>2 DEF IInv

LEMMA SubmitJobInv ==
  ASSUME IInv, submitJob
  PROVE  IInv'
<1>1. /\ TypeOK /\ Started /\ Bounded /\ LastPass /\ Ended /\ Connected
      /\ stage = "submitting" /\ wrapper.at = "none" /\ stage' \in {"failed", "running"}
      /\ UNCHANGED <<clientConnected, client, fetched, file, stdin, exitcode, pipe, pipeIn>>
  BY DEF IInv, Started, submitJob, goTo, mainOnly, theClient, files
<1>2. Connected'
  BY <1>1 DEF Connected, served, alive, gone
<1>3. CASE batch' = batch /\ (startWrapper \/ wrapperFails)
  <2>1. /\ wrapper' \in Wrapper /\ wrapper'.at \in {"check", "gone"}
        /\ job' \in {"none", "thinking"} /\ Bounded' /\ LastPass'
    BY <1>1, <1>3, WrapperBegins
  <2>2. TypeOK'
    BY <1>1, <1>3, <2>1 DEF TypeOK
  <2>3. Started' /\ Ended'
    BY <1>1, <1>3, <2>1 DEF Started, Ended
  <2>4. QED BY <1>2, <2>1, <2>2, <2>3 DEF IInv
<1>4. CASE /\ UNCHANGED <<wrapper, job>>
           /\ \/ batch' = batch
              \/ \E st \in {"listed", "refused"} : batch' = [batch EXCEPT !.state = st]
  <2>1. /\ batch' \in [system : {"none", "pbs"}, state : {"none", "listed", "left", "refused"}, done : BOOLEAN]
        /\ batch'.done = batch.done
    BY <1>1, <1>4 DEF TypeOK
  <2>2. TypeOK'
    BY <1>1, <1>4, <2>1 DEF TypeOK
  <2>3. Started' /\ Ended'
    BY <1>1, <1>4, <2>1 DEF Started, Ended
  <2>4. Bounded' /\ LastPass'
    BY <1>1, <1>4 DEF Bounded, LastPass
  <2>5. QED BY <1>2, <2>2, <2>3, <2>4 DEF IInv
<1>5. QED BY <1>3, <1>4 DEF submitJob

LEMMA MainInv ==
  ASSUME IInv, MainThread
  PROVE  IInv'
<1>1. TypeOK /\ Started /\ Ended /\ Connected /\ clientConnected \in 0..1
      /\ client \in {"starting", "connecting", "output", "stdin", "state", "files", "done", "dead"}
  BY DEF IInv, TypeOK
<1>2. CASE submitJob
  BY <1>2, SubmitJobInv
<1>3. ASSUME NEW st \in {"fetching", "waiting", "submitting", "storing", "draining", "exited", "failed"},
             goTo(st), UNCHANGED <<batch, wrapper, job>>,
             st \in {"fetching", "waiting", "submitting"} =>
                stage \in {"starting", "fetching", "waiting"},
             st \in {"fetching", "waiting", "failed"} =>
                stage \in {"starting", "fetching"},
             st = "submitting" => clientConnected > 0 /\ stage = "waiting",
             st \in {"storing", "draining", "exited"} =>
                /\ stage \in {"running", "storing", "draining"} /\ wrapper.at = "gone",
             st = "exited" => stage = "draining" /\ clientConnected = 0
      PROVE  IInv'
  <2>1. /\ stage' = st /\ mainOnly
        /\ UNCHANGED <<clientConnected, client, fetched, file, stdin, exitcode, pipe, pipeIn>>
    BY <1>3 DEF goTo, mainOnly, theClient, files
  <2>2. TypeOK'
    BY <1>1, <1>3, <2>1 DEF TypeOK
  <2>3. Started' /\ Ended'
    BY <1>1, <1>3, <2>1 DEF Started, Ended
  <2>4. /\ client \in {"starting", "connecting"} =>
             clientConnected = 0 /\ st \in {"starting", "fetching", "waiting", "failed"}
    BY <1>1, <1>3 DEF Connected
  <2>5. served /\ st \notin {"starting", "exited", "failed"} => clientConnected = 1
    BY <1>1, <1>3 DEF Connected, alive
  <2>6. st = "exited" => gone
    BY <1>1, <1>3 DEF Connected, served, alive, gone
  <2>7. Connected'
    BY <2>1, <2>4, <2>5, <2>6 DEF Connected, served, alive, gone
  <2>8. QED BY <1>3, <2>1, <2>2, <2>3, <2>7, StageInv
<1>4. CASE startupJobController
  BY <1>3, <1>4 DEF startupJobController
<1>5. CASE fetchInput
  BY <1>3, <1>5 DEF fetchInput
<1>6. CASE waitForClient
  BY <1>3, <1>6 DEF waitForClient
<1>7. CASE followJob
  BY <1>3, <1>7, FinishedIsGone DEF followJob
<1>8. CASE storeOutput
  BY <1>1, <1>3, <1>8 DEF storeOutput, Ended
<1>9. CASE waitForDisconnect
  BY <1>1, <1>3, <1>9 DEF waitForDisconnect, Ended
<1>10. QED
  BY <1>2, <1>4, <1>5, <1>6, <1>7, <1>8, <1>9 DEF MainThread

-----------------------------------------------------------------------------
(* The client *)

(* A step of the client changes what it does next, and may type something. *)
LEMMA ClientOnlyInv ==
  ASSUME IInv, clientOnly, UNCHANGED <<fetched, file, exitcode>>, stdin' \in 0..MaxIn,
         client' \in {"starting", "connecting", "output", "stdin", "state", "files", "dead"},
         client' = "files" => wrapper.at = "gone",
         clientConnected' \in 0..1,
         Connected'
  PROVE  IInv'
<1>1. /\ TypeOK /\ Started /\ Bounded /\ LastPass /\ Ended
      /\ UNCHANGED <<batch, stage, wrapper, job, pipe, pipeIn>>
  BY DEF IInv, clientOnly, theJob
<1>2. TypeOK'
  BY <1>1 DEF TypeOK
<1>3. Started' /\ Bounded' /\ Ended'
  BY <1>1 DEF Started, Bounded, Ended
<1>4. LastPass'
  BY <1>1 DEF LastPass
<1>5. QED BY <1>2, <1>3, <1>4 DEF IInv

LEMMA ConnectInv ==
  ASSUME IInv, connectToHost \/ acceptConnection
  PROVE  IInv'
<1>1. /\ TypeOK /\ Connected /\ clientOnly
      /\ UNCHANGED <<fetched, file, exitcode, stdin, stage>>
      /\ client \in {"starting", "connecting"} /\ clientConnected = 0 /\ stdin \in 0..MaxIn
      /\ stage \in {"starting", "fetching", "waiting", "failed"}
  BY DEF IInv, TypeOK, Connected, connectToHost, acceptConnection, next, clientOnly, files
<1>2. \/ client' = "dead" /\ clientConnected' = 0
      \/ alive /\ client' = "connecting" /\ clientConnected' = 0
      \/ alive /\ client' = "output" /\ clientConnected' = 1
  BY <1>1 DEF connectToHost, acceptConnection, next
<1>3. Connected'
  BY <1>1, <1>2 DEF Connected, served, alive, gone
<1>4. QED BY <1>1, <1>2, <1>3, ClientOnlyInv

(* A client that is served goes on, or dies. *)
LEMMA PollInv ==
  ASSUME IInv,
         getNewOutputData \/ sendNewInputData \/ getJobState \/ pollNobody \/ interrupt
  PROVE  IInv'
<1>1. /\ TypeOK /\ Connected /\ clientOnly
      /\ UNCHANGED <<fetched, file, exitcode, stage, clientConnected>>
      /\ client \notin {"done", "dead"} /\ clientConnected \in 0..1 /\ stdin \in 0..MaxIn
  BY DEF IInv, TypeOK, getNewOutputData, sendNewInputData, getJobState, pollNobody, interrupt,
         next, gone, clientOnly, files
<1>2. stdin' \in 0..MaxIn
  BY <1>1, SizeAssumption
     DEF getNewOutputData, sendNewInputData, getJobState, pollNobody, interrupt, files
<1>3. client' = "dead" \/ (served /\ client' \in {"output", "stdin", "state", "files"})
  BY <1>1 DEF getNewOutputData, sendNewInputData, getJobState, pollNobody, interrupt, next, served
<1>4. client' = "files" => wrapper.at = "gone"
  <2>1. ASSUME client' = "files"
        PROVE  getJobStatus = "finished"
    <3>1. getJobState
      BY <1>1, <2>1 DEF getNewOutputData, sendNewInputData, pollNobody, interrupt, next
    <3>2. state = "finished"
      BY <2>1, <3>1 DEF getJobState, next
    <3>3. CASE stage = "fetching"
      BY <3>2, <3>3 DEF state
    <3>4. CASE stage = "storing"
      BY <3>2, <3>4 DEF state
    <3>5. CASE stage \notin {"fetching", "storing"}
      BY <3>2, <3>5 DEF state
    <3>6. QED BY <3>3, <3>4, <3>5
  <2>2. QED BY <2>1, FinishedIsGone
<1>5. Connected'
  <2>1. CASE client' = "dead"
    BY <1>1, <2>1 DEF Connected, served, alive, gone
  <2>2. CASE served /\ client' \in {"output", "stdin", "state", "files"}
    BY <1>1, <2>2 DEF Connected, served, alive, gone
  <2>3. QED BY <1>3, <2>1, <2>2
<1>6. client' \in {"starting", "connecting", "output", "stdin", "state", "files", "dead"}
  BY <1>3
<1>7. clientConnected' \in 0..1
  BY <1>1
<1>8. QED BY <1>1, <1>2, <1>4, <1>5, <1>6, <1>7, ClientOnlyInv

(* The files are copied when the wrapper is gone: nothing is added to them. *)
LEMMA GetOutputFilesInv ==
  ASSUME IInv, getOutputFiles
  PROVE  IInv'
<1>1. /\ TypeOK /\ Started /\ Bounded /\ LastPass /\ Ended /\ Connected
      /\ client = "files" /\ client' = "done" /\ fetched' = file
      /\ UNCHANGED <<batch, stage, clientConnected, file, stdin, exitcode, wrapper, job, pipe, pipeIn>>
  BY DEF IInv, getOutputFiles, clientOnly, files, theJob
<1>2. TypeOK'
  BY <1>1 DEF TypeOK
<1>3. Started' /\ Bounded' /\ Ended'
  BY <1>1 DEF Started, Bounded, Ended
<1>4. LastPass'
  BY <1>1 DEF LastPass
<1>5. Connected'
  BY <1>1 DEF Connected, served, alive, gone
<1>6. QED BY <1>2, <1>3, <1>4, <1>5 DEF IInv

LEMMA DisconnectInv ==
  ASSUME IInv, disconnect
  PROVE  IInv'
<1>1. /\ TypeOK /\ Started /\ Bounded /\ LastPass /\ Ended /\ Connected
      /\ gone /\ clientConnected \in 0..1 /\ clientConnected > 0
      /\ clientConnected' = clientConnected - 1
      /\ UNCHANGED <<batch, stage, client, fetched, file, stdin, exitcode, wrapper, job, pipe, pipeIn>>
  BY DEF IInv, TypeOK, disconnect, clientOnly, theClient, files, theJob
<1>2. clientConnected' = 0
  BY <1>1
<1>3. TypeOK'
  BY <1>1, <1>2 DEF TypeOK
<1>4. Started' /\ Bounded' /\ Ended'
  BY <1>1 DEF Started, Bounded, Ended
<1>5. LastPass'
  BY <1>1 DEF LastPass
<1>6. Connected'
  BY <1>1 DEF Connected, served, alive, gone
<1>7. QED BY <1>3, <1>4, <1>5, <1>6 DEF IInv

-----------------------------------------------------------------------------
(* The theorems *)

LEMMA InitInv == Init => IInv
<1> SUFFICES ASSUME Init PROVE IInv
  OBVIOUS
<1>1. TypeOK
  <2>1. batch \in [system : {"none", "pbs"}, state : {"none", "listed", "left", "refused"}, done : BOOLEAN]
    BY DEF Init
  <2>2. 0 \in 0..MaxIn /\ 0 \in 0..MaxOut /\ 0 \in 0..Pipe /\ 0 \in 0..1
    BY SizeAssumption
  <2>3. wrapper \in Wrapper
    BY <2>2 DEF Init, Wrapper
  <2>4. /\ fetched \in [Stream -> 0..MaxOut] /\ file \in [Stream -> 0..MaxOut]
        /\ pipe \in [Stream -> 0..Pipe]
    BY <2>2 DEF Init
  <2>5. /\ stage = "starting" /\ clientConnected = 0 /\ client = "starting"
        /\ stdin = 0 /\ exitcode = FALSE /\ job = "none" /\ pipeIn = 0
    BY DEF Init
  <2>6. QED BY <2>1, <2>2, <2>3, <2>4, <2>5 DEF TypeOK
<1>2. Started /\ Bounded
  BY SizeAssumption, StreamFacts DEF Init, Started, Bounded
<1>3. LastPass /\ Ended /\ Connected
  BY DEF Init, LastPass, Ended, Connected, served
<1>4. QED BY <1>1, <1>2, <1>3 DEF IInv

(* Every step of every program keeps the invariant. *)
LEMMA StepInv == IInv /\ [Next]_vars => IInv'
<1> SUFFICES ASSUME IInv, [Next]_vars PROVE IInv'
  OBVIOUS
<1>1. CASE Job
  BY <1>1, JobInv
<1>2. CASE WrapperStep
  BY <1>2, CheckInv, SelectInv, ReadInv, LookForInputInv, FeedInv, FedInv, SaveExitCodeInv
     DEF WrapperStep
<1>3. CASE pbsStarts \/ pbsEnds
  BY <1>3, PbsStartsInv, PbsEndsInv
<1>4. CASE MainThread
  BY <1>4, MainInv
<1>5. CASE Client
  BY <1>5, ConnectInv, PollInv, GetOutputFilesInv, DisconnectInv DEF Client
<1>6. CASE interrupt
  BY <1>6, PollInv
<1>7. CASE UNCHANGED vars
  <2>1. UNCHANGED <<batch, stage, clientConnected, client, fetched, file, stdin, exitcode,
                    wrapper, job, pipe, pipeIn>>
    BY <1>7 DEF vars, controller, theClient, files, theJob
  <2>2. TypeOK' /\ Started' /\ Bounded' /\ LastPass' /\ Ended'
    BY <2>1 DEF IInv, TypeOK, Started, Bounded, LastPass, Ended
  <2>3. Connected'
    BY <2>1 DEF IInv, Connected, served, alive, gone
  <2>4. QED BY <2>2, <2>3 DEF IInv
<1>8. QED
  BY <1>1, <1>2, <1>3, <1>4, <1>5, <1>6, <1>7 DEF Next

THEOREM Invariance == Spec => []IInv
<1>1. QED BY InitInv, StepInv, PTL DEF Spec

(* Every variable keeps its type: no stream outgrows what the job writes,   *)
(* the count of clients is 0 or 1.                                         *)
THEOREM TypeCorrect == Spec => []TypeOK
<1>1. IInv => TypeOK
  BY DEF IInv
<1>2. QED BY <1>1, Invariance, PTL

(* What the client copies when it is told that the job has finished is all  *)
(* that the job wrote.                                                     *)
LEMMA AllFetched == IInv => OutputFetched
<1> SUFFICES ASSUME IInv, client = "done", ~wrapperDied, NEW s \in Stream
             PROVE  fetched[s] = file[s] + pipe[s]
  BY DEF OutputFetched
<1>1. wrapper.at = "gone" /\ fetched = file
  BY DEF IInv, Ended
<1>2. pipe[s] = 0
  BY <1>1 DEF IInv, LastPass, wrapperDied
<1>3. file[s] \in Nat
  BY SizeAssumption DEF IInv, TypeOK
<1>4. QED BY <1>1, <1>2, <1>3

(* The output is put on the grid only when the job has ended and all that   *)
(* it wrote is in its files.                                               *)
LEMMA AllStored == IInv => StoredWhole
<1> SUFFICES ASSUME IInv, stage \in {"storing", "draining", "exited"}, ~wrapperDied
             PROVE  job = "exited" /\ exitcode /\ \A s \in Stream : pipe[s] = 0
  BY DEF StoredWhole
<1>1. exitcode
  BY DEF IInv, Ended, wrapperDied
<1>2. QED BY <1>1 DEF IInv, LastPass

(* All that the job wrote reaches the client that is told of the end, and   *)
(* the grid, in whatever order wrapper, batch system and controller see it  *)
(* (getJobStatus, getOutputFiles, and the last pass of the wrapper).        *)
THEOREM AllArrives == Spec => []OutputWhole
<1>1. IInv => OutputWhole
  BY AllFetched, AllStored DEF OutputWhole
<1>2. QED BY <1>1, Invariance, PTL

-----------------------------------------------------------------------------
(* What the user sees *)

(* Where the client is, by what it does next. *)
where(c) == CASE c \in {"starting", "connecting"} -> "away"
              [] c \in {"done", "dead"} -> c
              [] OTHER -> "served"

LEMMA WhereFacts ==
  /\ whereabouts = where(client) /\ whereabouts' = where(client')
  /\ \A c \in {"starting", "connecting"} : where(c) = "away"
  /\ \A c \in {"output", "stdin", "state", "files"} : where(c) = "served"
  /\ \A c \in {"done", "dead"} : where(c) = c
<1>1. whereabouts = where(client) /\ whereabouts' = where(client')
  BY DEF whereabouts, where, gone
<1>2. /\ \A c \in {"starting", "connecting"} : where(c) = "away"
      /\ \A c \in {"done", "dead"} : where(c) = c
  BY DEF where
<1>3. \A c \in {"output", "stdin", "state", "files"} : where(c) = "served"
  BY DEF where
<1>4. QED BY <1>1, <1>2, <1>3

(* What is seen of the streams changes with their files and pipes only. *)
LEMMA ProducedSame ==
  ASSUME UNCHANGED <<file, pipe>>
  PROVE  produced' = produced
BY DEF produced

(* What is seen of the wrapper is its end. *)
LEMMA ClosedFacts ==
  /\ wrapper.at # "gone" => closed = "no"
  /\ wrapper.at = "gone" /\ exitcode => closed = "saved"
  /\ wrapper.at = "gone" /\ ~exitcode => closed = "died"
  /\ wrapper'.at # "gone" => closed' = "no"
  /\ wrapper'.at = "gone" /\ exitcode' => closed' = "saved"
  /\ wrapper'.at = "gone" /\ ~exitcode' => closed' = "died"
BY DEF closed

LEMMA JobPromise ==
  ASSUME IInv, Job
  PROVE  [I!Next]_I!vars
<1>1. /\ UNCHANGED <<stage, client, fetched, file, exitcode, wrapper>>
      /\ file \in [Stream -> 0..MaxOut] /\ pipe \in [Stream -> 0..Pipe]
  BY DEF IInv, TypeOK, Job, jobThinks, jobReads, jobWrites, controller, theClient, files
<1>2. UNCHANGED <<closed, stage \in {"draining", "exited"}, whereabouts, fetched, stage = "exited">>
  BY <1>1, WhereFacts DEF closed
<1>3. job # "exited"
  BY StreamFacts DEF Job, jobThinks, jobReads, jobWrites
<1>4. CASE UNCHANGED pipe
  <2>1. produced' = produced
    BY <1>1, <1>4, ProducedSame
  <2>2. CASE job' = "exited"
    <3>1. I!end
      BY <1>2, <1>3, <2>1, <2>2 DEF I!end
    <3>2. QED BY <3>1 DEF I!Next
  <2>3. CASE job' # "exited"
    BY <1>2, <1>3, <2>1, <2>3 DEF I!vars
  <2>4. QED BY <2>2, <2>3
<1>5. ASSUME NEW s \in Stream, jobWrites(s)
      PROVE  I!Next
  <2>1. pipe' = [pipe EXCEPT ![s] = @ + 1] /\ job' = "thinking"
    BY <1>5 DEF jobWrites
  <2>2. produced' = [produced EXCEPT ![s] = @ + 1]
    <3>1. ASSUME NEW t \in Stream
          PROVE  file'[t] + pipe'[t] = IF t = s THEN file[t] + pipe[t] + 1 ELSE file[t] + pipe[t]
      <4>1. file[t] \in Nat /\ pipe[t] \in Nat
        BY <1>1, SizeAssumption
      <4>2. QED BY <1>1, <2>1, <4>1
    <3>2. QED BY <3>1 DEF produced
  <2>3. I!write(s)
    BY <1>2, <1>3, <2>1, <2>2 DEF I!write
  <2>4. QED BY <2>3 DEF I!Next
<1>6. QED
  BY <1>4, <1>5 DEF Job, jobThinks, jobReads

(* A read takes units from a pipe to its file. *)
LEMMA ReadPromise ==
  ASSUME IInv, read
  PROVE  UNCHANGED I!vars
<1> DEFINE s == reading
           n == Min({Chunk, pipe[s]})
<1>1. file \in [Stream -> 0..MaxOut] /\ pipe \in [Stream -> 0..Pipe] /\ wrapper \in Wrapper
  BY DEF IInv, TypeOK
<1>2. /\ wrapper.at = "read"
      /\ file' = [file EXCEPT ![s] = @ + n]
      /\ pipe' = [pipe EXCEPT ![s] = @ - n]
      /\ wrapper' = IF n = Chunk THEN wrapper ELSE [wrapper EXCEPT !.ready = @ \ {s}]
      /\ UNCHANGED <<stage, client, fetched, exitcode, job>>
  BY DEF read, controller, theClient
<1>3. s \in Stream
  BY DEF reading, Stream
<1>4. pipe[s] \in Nat
  BY <1>1, <1>3, SizeAssumption
<1>5. n \in 0..pipe[s]
  BY <1>4, SizeAssumption, ReadFacts
<1> HIDE DEF s, n
<1>6. wrapper'.at = "read"
  BY <1>1, <1>2 DEF Wrapper
<1>7. ASSUME NEW t \in Stream
      PROVE  file'[t] + pipe'[t] = file[t] + pipe[t]
  <2>1. file[t] \in Nat /\ pipe[t] \in Nat
    BY <1>1, SizeAssumption
  <2>2. QED BY <1>1, <1>2, <1>4, <1>5, <2>1
<1>8. produced' = produced
  BY <1>7 DEF produced
<1>9. closed' = closed
  BY <1>2, <1>6, ClosedFacts
<1>10. whereabouts' = whereabouts
  BY <1>2, WhereFacts
<1>11. QED BY <1>2, <1>8, <1>9, <1>10 DEF I!vars

LEMMA WrapperPromise ==
  ASSUME IInv, WrapperStep
  PROVE  [I!Next]_I!vars
<1>1. CASE read
  BY <1>1, ReadPromise
<1>2. ASSUME ~read
      PROVE  UNCHANGED <<stage, client, fetched, file, job, pipe>>
  BY <1>2 DEF WrapperStep, check, select, lookForInput, feed, fed, saveExitCode, wrapperOnly,
              controller, theClient, theJob, files
<1>3. ASSUME ~read
      PROVE  /\ produced' = produced
             /\ UNCHANGED <<job = "exited", stage \in {"draining", "exited"}, whereabouts,
                            fetched, stage = "exited">>
  BY <1>2, <1>3, ProducedSame, WhereFacts
<1>4. wrapper \in Wrapper
  BY DEF IInv, TypeOK
<1>5. CASE check \/ select \/ lookForInput \/ fed
  <2>1. wrapper.at # "gone" /\ wrapper'.at # "gone" /\ ~read
    BY <1>4, <1>5 DEF check, select, lookForInput, fed, read, Wrapper
  <2>2. closed' = closed
    BY <2>1, ClosedFacts
  <2>3. QED BY <1>3, <2>1, <2>2 DEF I!vars
<1>6. CASE feed
  <2>1. wrapper.at = "feed" /\ wrapper'.at \in {"feed", "gone"} /\ ~read
        /\ exitcode' = exitcode
    BY <1>4, <1>6 DEF feed, read, Wrapper, files
  <2>2. ~exitcode
    BY <2>1 DEF IInv, LastPass
  <2>3. closed = "no" /\ closed' \in {"no", "died"}
    BY <2>1, <2>2, ClosedFacts
  <2>4. closed' = "died" => I!close
    BY <1>3, <2>1, <2>3 DEF I!close
  <2>5. closed' = "no" => UNCHANGED I!vars
    BY <1>3, <2>1, <2>3 DEF I!vars
  <2>6. QED BY <2>3, <2>4, <2>5 DEF I!Next
<1>7. CASE saveExitCode
  <2>1. wrapper.at = "end" /\ wrapper'.at = "gone" /\ exitcode' /\ ~read
    BY <1>4, <1>7 DEF saveExitCode, read, Wrapper
  <2>2. job = "exited"
    BY <2>1 DEF IInv, LastPass
  <2>3. closed = "no" /\ closed' = "saved"
    BY <2>1, ClosedFacts
  <2>4. I!close
    BY <1>3, <2>1, <2>2, <2>3 DEF I!close
  <2>5. QED BY <2>4 DEF I!Next
<1>8. QED BY <1>1, <1>5, <1>6, <1>7 DEF WrapperStep

(* The wrapper begins, or fails before it has begun. *)
LEMMA BeginPromise ==
  ASSUME IInv, wrapper.at = "none", startWrapper \/ wrapperFails,
         UNCHANGED <<client, fetched, file, exitcode, pipe>>,
         UNCHANGED <<stage \in {"draining", "exited"}, stage = "exited">>
  PROVE  [I!Next]_I!vars
<1>1. wrapper \in Wrapper /\ job = "none" /\ ~exitcode
  BY DEF IInv, TypeOK, Started, LastPass
<1>2. wrapper'.at \in {"check", "gone"} /\ job' # "exited"
  BY <1>1 DEF startWrapper, wrapperFails, Wrapper
<1>3. produced' = produced /\ whereabouts' = whereabouts
  BY ProducedSame, WhereFacts
<1>4. closed = "no" /\ closed' \in {"no", "died"}
  BY <1>1, <1>2, ClosedFacts
<1>5. closed' = "died" => I!close
  BY <1>1, <1>2, <1>3, <1>4 DEF I!close
<1>6. closed' = "no" => UNCHANGED I!vars
  BY <1>1, <1>2, <1>3, <1>4 DEF I!vars
<1>7. QED BY <1>4, <1>5, <1>6 DEF I!Next

LEMMA BatchPromise ==
  ASSUME IInv, pbsStarts \/ pbsEnds
  PROVE  [I!Next]_I!vars
<1>1. CASE pbsStarts
  <2>1. /\ wrapper.at = "none" /\ (startWrapper \/ wrapperFails)
        /\ UNCHANGED <<client, fetched, file, exitcode, pipe, stage>>
    BY <1>1 DEF pbsStarts, controller, theClient, files
  <2>2. QED BY <2>1, BeginPromise
<1>2. CASE pbsEnds
  <2>1. UNCHANGED <<stage, client, fetched, file, exitcode, wrapper, job, pipe>>
    BY <1>2 DEF pbsEnds, controller, theClient, files, theJob
  <2>2. UNCHANGED <<produced, whereabouts, closed>>
    BY <2>1, ProducedSame, WhereFacts DEF closed
  <2>3. QED BY <2>1, <2>2 DEF I!vars
<1>3. QED BY <1>1, <1>2

LEMMA MainPromise ==
  ASSUME IInv, MainThread
  PROVE  [I!Next]_I!vars
<1>1. UNCHANGED <<client, fetched, file, exitcode, pipe>>
  BY DEF MainThread, startupJobController, fetchInput, waitForClient, submitJob, followJob,
         storeOutput, waitForDisconnect, goTo, mainOnly, theClient, files
<1>2. produced' = produced /\ whereabouts' = whereabouts
  BY <1>1, ProducedSame, WhereFacts
<1>3. CASE submitJob
  <2>1. wrapper.at = "none"
    BY <1>3 DEF IInv, Started, submitJob
  <2>2. stage = "submitting" /\ stage' \in {"running", "failed"}
    BY <1>3 DEF submitJob, goTo
  <2>3. CASE startWrapper \/ wrapperFails
    BY <1>1, <2>1, <2>2, <2>3, BeginPromise
  <2>4. CASE UNCHANGED <<wrapper, job>>
    <3>1. closed' = closed
      BY <1>1, <2>4 DEF closed
    <3>2. QED BY <1>1, <1>2, <2>2, <2>4, <3>1 DEF I!vars
  <2>5. QED BY <1>3, <2>3, <2>4 DEF submitJob
<1>4. ASSUME ~submitJob
      PROVE  UNCHANGED <<wrapper, job>> /\ closed' = closed
  <2>1. UNCHANGED <<wrapper, job>>
    BY <1>4 DEF MainThread, startupJobController, fetchInput, waitForClient, followJob,
                storeOutput, waitForDisconnect
  <2>2. QED BY <1>1, <2>1 DEF closed
<1>5. CASE startupJobController \/ fetchInput \/ waitForClient \/ followJob
  <2>1. stage \notin {"draining", "exited"} /\ stage' \notin {"draining", "exited"} /\ ~submitJob
    BY <1>5 DEF startupJobController, fetchInput, waitForClient, followJob, submitJob, goTo
  <2>2. QED BY <1>1, <1>2, <1>4, <2>1 DEF I!vars
<1>6. CASE storeOutput
  <2>1. stage = "storing" /\ stage' = "draining" /\ ~submitJob
    BY <1>6 DEF storeOutput, submitJob, goTo
  <2>2. closed # "no"
    BY <2>1, ClosedFacts DEF IInv, Ended
  <2>3. I!storeOutput
    BY <1>1, <1>2, <1>4, <2>1, <2>2 DEF I!storeOutput
  <2>4. QED BY <2>3 DEF I!Next
<1>7. CASE waitForDisconnect
  <2>1. stage = "draining" /\ stage' = "exited" /\ ~submitJob
    BY <1>7 DEF waitForDisconnect, submitJob, goTo
  <2>2. gone
    <3>1. gone'
      BY <1>7, <2>1, MainInv DEF MainThread, IInv, Connected
    <3>2. QED BY <1>1, <3>1 DEF gone
  <2>3. whereabouts \in {"done", "dead"}
    BY <2>2, WhereFacts DEF gone
  <2>4. I!leave
    BY <1>1, <1>2, <1>4, <2>1, <2>3 DEF I!leave
  <2>5. QED BY <2>4 DEF I!Next
<1>8. QED BY <1>3, <1>5, <1>6, <1>7 DEF MainThread

LEMMA ClientPromise ==
  ASSUME IInv, Client \/ interrupt
  PROVE  [I!Next]_I!vars
<1>1. UNCHANGED <<stage, file, exitcode, wrapper, job, pipe>>
  BY DEF Client, connectToHost, acceptConnection, getNewOutputData, sendNewInputData, getJobState,
         getOutputFiles, pollNobody, disconnect, interrupt, clientOnly, files, theJob
<1>2. produced' = produced /\ closed' = closed
  BY <1>1, ProducedSame DEF closed
<1>3. /\ whereabouts = where(client) /\ whereabouts' = where(client')
      /\ where("starting") = "away" /\ where("connecting") = "away"
      /\ \A c \in {"output", "stdin", "state", "files"} : where(c) = "served"
      /\ where("done") = "done" /\ where("dead") = "dead"
      /\ client \in {"starting", "connecting", "output", "stdin", "state", "files", "done", "dead"}
  BY WhereFacts DEF IInv, TypeOK
<1>4. ASSUME client' = "dead", ~gone, fetched' = fetched
      PROVE  [I!Next]_I!vars
  <2>1. whereabouts \in {"away", "served"} /\ whereabouts' = "dead"
    BY <1>3, <1>4 DEF gone
  <2>2. I!die
    BY <1>1, <1>2, <1>4, <2>1 DEF I!die
  <2>3. QED BY <2>2 DEF I!Next
<1>5. ASSUME whereabouts' = whereabouts, fetched' = fetched
      PROVE  [I!Next]_I!vars
  BY <1>1, <1>2, <1>5 DEF I!vars
<1>6. CASE connectToHost
  <2>1. client = "starting" /\ client' \in {"connecting", "dead"} /\ fetched' = fetched
    BY <1>6 DEF connectToHost, next
  <2>2. QED BY <1>3, <1>4, <1>5, <2>1 DEF gone
<1>7. CASE acceptConnection
  <2>1. /\ client = "connecting" /\ fetched' = fetched
        /\ client' = "dead" \/ (client' = "output" /\ alive)
    BY <1>7 DEF acceptConnection, next
  <2>2. CASE client' = "output" /\ alive
    <3>1. I!connect
      BY <1>1, <1>2, <1>3, <2>1, <2>2 DEF I!connect, alive
    <3>2. QED BY <3>1 DEF I!Next
  <2>3. QED BY <1>4, <2>1, <2>2 DEF gone
<1>8. CASE getNewOutputData \/ sendNewInputData \/ getJobState \/ pollNobody
  <2>1. /\ fetched' = fetched
        /\ client \in {"output", "stdin", "state"}
        /\ client' \in {"output", "stdin", "state", "files"}
    BY <1>8 DEF getNewOutputData, sendNewInputData, getJobState, pollNobody, next
  <2>2. whereabouts' = whereabouts
    BY <1>3, <2>1
  <2>3. QED BY <1>5, <2>1, <2>2
<1>9. CASE getOutputFiles
  <2>1. client = "files" /\ client' = "done" /\ fetched' = file
    BY <1>9 DEF getOutputFiles
  <2>2. /\ file \in [Stream -> 0..MaxOut] /\ pipe \in [Stream -> 0..Pipe]
        /\ wrapper.at = "gone" /\ (exitcode => \A s \in Stream : pipe[s] = 0)
    BY <2>1 DEF IInv, TypeOK, Ended, LastPass
  <2>3. ASSUME NEW s \in Stream
        PROVE  /\ file[s] \in Nat /\ produced[s] = file[s] + pipe[s] /\ file[s] <= produced[s]
               /\ exitcode => produced[s] = file[s]
    BY <2>2, SizeAssumption DEF produced
  <2>4. closed # "no" /\ (closed = "saved" => exitcode)
    BY <2>2, ClosedFacts
  <2>5. exitcode => fetched' = produced
    BY <2>1, <2>2, <2>3 DEF produced
  <2>6. fetched' \in [Stream -> Nat] /\ \A s \in Stream : fetched'[s] <= produced[s]
    BY <2>1, <2>2, <2>3
  <2>7. I!copyOutput
    BY <1>1, <1>2, <1>3, <2>1, <2>4, <2>5, <2>6 DEF I!copyOutput
  <2>8. QED BY <2>7 DEF I!Next
<1>10. CASE disconnect
  <2>1. client' = client /\ fetched' = fetched
    BY <1>10 DEF disconnect, theClient
  <2>2. QED BY <1>3, <1>5, <2>1
<1>11. CASE interrupt
  BY <1>4, <1>11 DEF interrupt, next
<1>12. QED
  BY <1>6, <1>7, <1>8, <1>9, <1>10, <1>11 DEF Client

(* Seen from outside, the five programs do what InteractiveJob allows: the *)
(* output is stored and copied after it was closed, whole if there is an    *)
(* exit code, and the controller leaves when its client has left.          *)
THEOREM KeepsThePromise == Spec => ImplementsInteractiveJob
<1>1. Init => I!Init
  <2> SUFFICES ASSUME Init PROVE I!Init
    OBVIOUS
  <2>1. /\ produced = [s \in Stream |-> 0] /\ fetched = [s \in Stream |-> 0]
    BY DEF Init, produced
  <2>2. closed = "no" /\ whereabouts = "away"
    BY ClosedFacts, WhereFacts DEF Init
  <2>3. QED BY <2>1, <2>2 DEF Init, I!Init
<1>2. IInv /\ [Next]_vars => [I!Next]_I!vars
  <2> SUFFICES ASSUME IInv, [Next]_vars PROVE [I!Next]_I!vars
    OBVIOUS
  <2>1. CASE UNCHANGED vars
    <3>1. UNCHANGED <<stage, client, fetched, file, exitcode, wrapper, job, pipe>>
      BY <2>1 DEF vars, controller, theClient, files, theJob
    <3>2. UNCHANGED <<produced, whereabouts, closed>>
      BY <3>1, ProducedSame, WhereFacts DEF closed
    <3>3. QED BY <3>1, <3>2 DEF I!vars
  <2>2. QED
    BY <2>1, JobPromise, WrapperPromise, BatchPromise, MainPromise, ClientPromise DEF Next
<1>3. QED
  BY <1>1, <1>2, Invariance, PTL DEF Spec, ImplementsInteractiveJob, I!Spec

-----------------------------------------------------------------------------
(* No other deadlock *)

(* Each program has what it waits for: a wrapper at work has a job, a job   *)
(* that main follows has been handed over, one that it has seen the end of  *)
(* stays finished.                                                         *)
Followed ==
  /\ wrapper.at \notin {"none", "gone"} => job # "none"
  /\ stage \in {"running", "storing", "draining", "exited"} =>
        IF batch.system = "none" THEN wrapper.at # "none" ELSE batch.state # "none"
  /\ stage \in {"storing", "draining"} => getJobStatus = "finished"
  /\ batch.state = "left" => batch.done

LEMMA InitFollowed == Init => Followed
BY DEF Init, Followed

(* A job that is finished stays finished. *)
LEMMA FinishedStays ==
  ASSUME TypeOK, batch.system = "none" => batch' = batch,
         wrapper.at = "gone" => wrapper'.at = "gone",
         batch.system = "pbs" =>
            /\ batch'.system = "pbs"
            /\ batch.state \in {"left", "refused"} => batch'.state = batch.state
            /\ batch.done => batch'.done,
         getJobStatus = "finished"
  PROVE  getJobStatus' = "finished"
<1>1. batch.system \in {"none", "pbs"} /\ batch.state \in {"none", "listed", "left", "refused"}
  BY DEF TypeOK
<1>2. CASE batch.system = "none"
  <2>1. wrapper.at = "gone"
    BY <1>2 DEF getJobStatus
  <2>2. batch'.system = "none" /\ wrapper'.at = "gone"
    BY <1>2, <2>1
  <2>3. QED BY <2>2 DEF getJobStatus
<1>3. CASE batch.system = "pbs"
  <2>1. batch.state \in {"left", "refused"} /\ batch.done
    <3>1. batch.state # "none" /\ batch.state # "listed"
      BY <1>3 DEF getJobStatus
    <3>2. batch.done
      BY <1>3, <3>1 DEF getJobStatus
    <3>3. QED BY <1>1, <3>1, <3>2
  <2>2. batch'.system = "pbs" /\ batch'.state \in {"left", "refused"} /\ batch'.done
    BY <1>3, <2>1
  <2>3. QED BY <2>2 DEF getJobStatus
<1>4. QED BY <1>1, <1>2, <1>3

(* Steps of the job, the wrapper and the client. *)
LEMMA StaysFollowed ==
  ASSUME TypeOK, Followed, UNCHANGED <<batch, stage>>,
         wrapper.at \in {"none", "gone"} => wrapper'.at = wrapper.at,
         wrapper.at # "none" => wrapper'.at # "none",
         job # "none" => job' # "none"
  PROVE  Followed'
<1>1. getJobStatus = "finished" => getJobStatus' = "finished"
  BY FinishedStays
<1>2. wrapper'.at \notin {"none", "gone"} => job' # "none"
  BY DEF Followed
<1>3. stage' \in {"running", "storing", "draining", "exited"} =>
         IF batch'.system = "none" THEN wrapper'.at # "none" ELSE batch'.state # "none"
  BY DEF Followed
<1>4. QED BY <1>1, <1>2, <1>3 DEF Followed

LEMMA WrapperFollowed ==
  ASSUME TypeOK, Followed, WrapperStep
  PROVE  Followed'
<1>1. UNCHANGED <<batch, stage, job>> /\ wrapper \in Wrapper
  BY DEF TypeOK, WrapperStep, check, select, read, lookForInput, feed, fed, saveExitCode,
         wrapperOnly, controller, theJob
<1>2. wrapper.at \notin {"none", "gone"}
  BY DEF WrapperStep, check, select, read, lookForInput, feed, fed, saveExitCode
<1>3. wrapper'.at # "none"
  <2>1. CASE check \/ select
    BY <1>1, <2>1 DEF check, select, Wrapper
  <2>2. CASE read
    <3>1. wrapper'.at = wrapper.at
      BY <1>1, <2>2 DEF read, Wrapper
    <3>2. QED BY <1>2, <3>1
  <2>3. CASE lookForInput
    BY <1>1, <2>3 DEF lookForInput, Wrapper
  <2>4. CASE feed
    <3>1. wrapper'.at \in {wrapper.at, "gone"}
      BY <1>1, <2>4 DEF feed, Wrapper
    <3>2. QED BY <1>2, <3>1
  <2>5. CASE fed \/ saveExitCode
    BY <1>1, <2>5 DEF fed, saveExitCode, Wrapper
  <2>6. QED BY <2>1, <2>2, <2>3, <2>4, <2>5 DEF WrapperStep
<1>4. QED BY <1>1, <1>2, <1>3, StaysFollowed

LEMMA BatchFollowed ==
  ASSUME IInv, Followed, pbsStarts \/ pbsEnds
  PROVE  Followed'
<1>1. /\ TypeOK /\ Started /\ wrapper \in Wrapper /\ stage' = stage /\ batch.system = "pbs"
      /\ batch \in [system : {"none", "pbs"}, state : {"none", "listed", "left", "refused"}, done : BOOLEAN]
  BY DEF IInv, TypeOK, pbsStarts, pbsEnds, controller
<1>2. CASE pbsStarts
  <2>1. /\ batch' = batch /\ batch.state = "listed" /\ wrapper.at = "none"
        /\ \/ wrapper'.at = "check" /\ job' = "thinking"
           \/ wrapper'.at = "gone" /\ job' = job
    BY <1>1, <1>2 DEF pbsStarts, startWrapper, wrapperFails, Wrapper
  <2>2. stage \notin {"storing", "draining"}
    BY <1>1, <2>1 DEF Followed, getJobStatus
  <2>3. QED BY <1>1, <2>1, <2>2 DEF Followed
<1>3. CASE pbsEnds
  <2>1. /\ wrapper' = wrapper /\ job' = job /\ wrapper.at = "gone"
        /\ \/ batch' = [batch EXCEPT !.done = TRUE]
           \/ batch.done /\ batch.state = "listed" /\ batch' = [batch EXCEPT !.state = "left"]
    BY <1>3 DEF pbsEnds, theJob
  <2>2. /\ batch'.system = "pbs"
        /\ batch.state \in {"left", "refused"} => batch'.state = batch.state
        /\ batch.state # "none" => batch'.state # "none"
        /\ batch.done => batch'.done
        /\ batch'.state = "left" => batch'.done
    BY <1>1, <2>1 DEF Followed
  <2>3. getJobStatus = "finished" => getJobStatus' = "finished"
    BY <1>1, <2>1, <2>2, FinishedStays
  <2>4. QED BY <1>1, <2>1, <2>2, <2>3 DEF Followed
<1>4. QED BY <1>2, <1>3

LEMMA MainFollowed ==
  ASSUME IInv, Followed, MainThread
  PROVE  Followed'
<1>1. /\ TypeOK /\ Started /\ wrapper \in Wrapper
      /\ batch \in [system : {"none", "pbs"}, state : {"none", "listed", "left", "refused"}, done : BOOLEAN]
  BY DEF IInv, TypeOK
<1>2. CASE submitJob
  <2>1. stage = "submitting" /\ wrapper.at = "none" /\ stage' \in {"running", "failed"}
    BY <1>1, <1>2 DEF submitJob, goTo, Started
  <2>2. CASE batch.system = "none"
    <3>1. /\ batch' = batch
          /\ \/ stage' = "failed" /\ wrapper' = wrapper /\ job' = job
             \/ wrapper'.at = "check" /\ job' = "thinking"
             \/ wrapper'.at = "gone" /\ job' = job
      BY <1>1, <1>2, <2>2 DEF submitJob, goTo, startWrapper, wrapperFails, Wrapper
    <3>2. QED BY <1>1, <2>1, <2>2, <3>1 DEF Followed
  <2>3. CASE batch.system # "none"
    <3>1. wrapper' = wrapper /\ batch'.system = batch.system /\ batch'.state \in {"listed", "refused"}
      BY <1>1, <1>2, <2>3 DEF submitJob, goTo
    <3>2. QED BY <2>1, <2>3, <3>1 DEF Followed
  <2>4. QED BY <2>2, <2>3
<1>3. ASSUME NEW st, goTo(st), UNCHANGED <<batch, wrapper, job>>,
             st \in {"storing", "draining", "exited"} =>
                stage \in {"running", "storing", "draining"} /\ getJobStatus = "finished",
             st # "running"
      PROVE  Followed'
  <2>1. stage' = st /\ UNCHANGED <<batch, wrapper, job>>
    BY <1>3 DEF goTo
  <2>2. getJobStatus' = getJobStatus
    BY <2>1 DEF getJobStatus
  <2>3. QED BY <1>3, <2>1, <2>2 DEF Followed
<1>4. CASE startupJobController \/ fetchInput \/ waitForClient
  BY <1>3, <1>4 DEF startupJobController, fetchInput, waitForClient
<1>5. CASE followJob
  BY <1>3, <1>5 DEF followJob
<1>6. CASE storeOutput
  BY <1>3, <1>6 DEF storeOutput, Followed
<1>7. CASE waitForDisconnect
  BY <1>3, <1>7 DEF waitForDisconnect, Followed
<1>8. QED
  BY <1>2, <1>4, <1>5, <1>6, <1>7 DEF MainThread

LEMMA StepFollowed == IInv /\ Followed /\ [Next]_vars => Followed'
<1> SUFFICES ASSUME IInv, Followed, [Next]_vars PROVE Followed'
  OBVIOUS
<1>0. TypeOK
  BY DEF IInv
<1>1. CASE Job
  <2>1. UNCHANGED <<batch, stage, wrapper>> /\ (job # "none" => job' # "none")
    BY <1>1 DEF Job, jobThinks, jobReads, jobWrites, Stream, controller
  <2>2. QED BY <1>0, <2>1, StaysFollowed
<1>2. CASE WrapperStep
  BY <1>0, <1>2, WrapperFollowed
<1>3. CASE pbsStarts \/ pbsEnds
  BY <1>3, BatchFollowed
<1>4. CASE MainThread
  BY <1>4, MainFollowed
<1>5. CASE Client \/ interrupt \/ UNCHANGED vars
  <2>1. UNCHANGED <<batch, stage, wrapper, job>>
    BY <1>5 DEF Client, interrupt, connectToHost, acceptConnection, getNewOutputData, sendNewInputData,
       getJobState, getOutputFiles, pollNobody, disconnect, clientOnly, vars, controller, theJob
  <2>2. QED BY <1>0, <2>1, StaysFollowed
<1>6. QED
  BY <1>1, <1>2, <1>3, <1>4, <1>5 DEF Next

(* A job that has been begun and does nothing waits for input or for room.  *)
LEMMA JobIsBlocked ==
  ASSUME Followed, jobWaits, wrapper.at \notin {"none", "gone"}, job # "exited"
  PROVE  jobBlocked
BY DEF Followed, jobWaits

(* A wrapper at work that moves nothing is blocked, or waits for the user. *)
LEMMA WrapperIsBlocked ==
  ASSUME IInv, Followed, jobWaits, wrapperWaits, wrapper.at \notin {"none", "gone"}
  PROVE  stuck
<1>1. TypeOK /\ pipe \in [Stream -> 0..Pipe]
  BY DEF IInv, TypeOK
<1>2. CASE wrapper.at = "read" /\ wrapper.ready # {}
  <2>1. pipe[reading] = 0 /\ job # "exited"
    BY <1>2 DEF wrapperWaits
  <2>2. jobBlocked
    BY <2>1, JobIsBlocked
  <2>3. QED BY <1>2, <2>1, <2>2 DEF stuck, blockedReading
<1>3. CASE wrapper.at = "feed" /\ wrapper.last < wrapper.upto
  <2>1. pipeIn = Pipe /\ job # "exited"
    BY <1>3 DEF wrapperWaits
  <2>2. jobBlocked
    BY <2>1, JobIsBlocked
  <2>3. QED BY <1>3, <2>1, <2>2 DEF stuck, blockedWriting
<1>4. CASE /\ ~(wrapper.at = "read" /\ wrapper.ready # {})
           /\ ~(wrapper.at = "feed" /\ wrapper.last < wrapper.upto)
  <2>1. job # "exited" /\ wrapper.last = stdin /\ \A s \in Stream : pipe[s] = 0
    BY <1>4 DEF wrapperWaits
  <2>2. jobBlocked
    BY <2>1, JobIsBlocked
  <2>3. job = "stdin" /\ pipeIn = 0
    <3>1. ~(job \in Stream /\ pipe[job] = Pipe)
      BY <2>1, SizeAssumption
    <3>2. QED BY <2>2, <3>1 DEF jobBlocked
  <2>4. QED BY <2>1, <2>3 DEF stuck, waitsForUser
<1>5. QED BY <1>2, <1>3, <1>4

(* While main follows the job, it is the job or its wrapper that waits. *)
LEMMA RunningIsStuck ==
  ASSUME IInv, Followed, jobWaits, wrapperWaits, batchWaits,
         stage = "running", getJobStatus # "finished"
  PROVE  stuck
<1>1. batch.system \in {"none", "pbs"} /\ batch.state \in {"none", "listed", "left", "refused"}
  BY DEF IInv, TypeOK
<1>2. CASE batch.system = "none"
  <2>1. wrapper.at \notin {"none", "gone"}
    BY <1>2 DEF Followed, getJobStatus
  <2>2. QED BY <2>1, WrapperIsBlocked
<1>3. CASE batch.system = "pbs"
  <2>1. batch.state # "none"
    BY <1>3 DEF Followed
  <2>2. batch.state # "left"
    BY <1>3 DEF Followed, getJobStatus
  <2>3. CASE batch.state = "refused"
    BY <2>3 DEF stuck
  <2>4. CASE batch.state = "listed"
    <3>1. wrapper.at \notin {"none", "gone"}
      BY <1>3, <2>4 DEF batchWaits
    <3>2. QED BY <3>1, WrapperIsBlocked
  <2>5. QED BY <1>1, <2>1, <2>2, <2>3, <2>4
<1>4. QED BY <1>1, <1>2, <1>3

LEMMA WaitsAreNamed == IInv /\ Followed => OnlyNamedWaits
<1> SUFFICES ASSUME IInv, Followed,
                    jobWaits, wrapperWaits, batchWaits, mainWaits, clientWaits
             PROVE  stage = "failed" \/ stuck \/ (stage = "exited" /\ gone)
  BY DEF OnlyNamedWaits
<1>1. Connected /\ clientConnected \in 0..1
  BY DEF IInv, TypeOK
<1>2. CASE stage = "failed"
  BY <1>2
<1>3. CASE stage = "exited"
  BY <1>1, <1>3 DEF Connected
<1>4. CASE stage = "running"
  BY <1>4, RunningIsStuck DEF mainWaits
<1>5. CASE stage = "waiting"
  <2>1. clientConnected = 0 /\ alive
    BY <1>5 DEF mainWaits, alive
  <2>2. gone
    BY <1>1, <2>1 DEF clientWaits, Connected, served
  <2>3. QED BY <1>5, <2>1, <2>2 DEF stuck, nobodyToWaitFor
<1>6. CASE stage = "draining"
  <2>1. clientConnected > 0 /\ alive
    BY <1>6 DEF mainWaits, alive
  <2>2. state = "finished"
    BY <1>6 DEF Followed, state
  <2>3. QED BY <1>1, <2>1, <2>2 DEF clientWaits
<1>7. QED
  BY <1>2, <1>3, <1>4, <1>5, <1>6 DEF mainWaits

(* However large the buffer of a read and the pipes are, the five programs  *)
(* never all wait for one another but in the cases named stuck, among them  *)
(* the read that follows one that filled the buffer                        *)
(* (qcdgrid-job-wrapper.c:558) and the client that left before it  *)
(* was counted (qcdgrid-job-controller.c:1011).                           *)
THEOREM NoOtherDeadlock == Spec => []OnlyNamedWaits
<1>1. Init => Followed
  BY InitFollowed
<1>2. IInv /\ Followed /\ [Next]_vars => Followed'
  BY StepFollowed
<1>3. IInv /\ Followed => OnlyNamedWaits
  BY WaitsAreNamed
<1>4. QED
  BY <1>1, <1>2, <1>3, Invariance, PTL DEF Spec
===============================================================================
