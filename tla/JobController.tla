---------------------------- MODULE JobController -----------------------------
(***************************************************************************)
(* An interactive job (js/src): the client (qcdgrid-job-submit.c, jobio.c) *)
(* polls the job controller for output and state, the controller          *)
(* (qcdgrid-job-controller.c) hands the job to a batch system (batch.c)    *)
(* and follows it, the wrapper (qcdgrid-job-wrapper.c) carries the job's   *)
(* streams between its pipes and files that the controller reads.          *)
(*                                                                         *)
(* A step is one system call of the wrapper that may block, one message of *)
(* the client with its answer, one stage of the controller.  Streams are   *)
(* counted in units of which Chunk fit the buffer of one read.             *)
(***************************************************************************)
EXTENDS Naturals, FiniteSetsExt

CONSTANTS Chunk,   \* what one read takes: 999 bytes in the code
          Pipe,    \* what a pipe holds
          MaxOut,  \* bound: what the job writes to each stream
          MaxIn    \* bound: what the user types

ASSUME SizeAssumption == Chunk \in Nat \ {0} /\ Pipe \in Nat \ {0} /\ MaxOut \in Nat /\ MaxIn \in Nat

Stream == {"stdout", "stderr"}

VARIABLES batch,    \* the batch system and what it makes of the job
          stage,    \* of main of the controller
          clientConnected,
          client,   \* what the client does next
          fetched,  \* how much of each file the client copied in the end
          file,     \* length of the files stdout and stderr
          stdin,    \* length of the file stdin
          exitcode, \* is there a file exitcode
          wrapper,
          job,      \* what the job does next
          pipe,     \* what is in the pipes from the job
          pipeIn    \* what is in the pipe to the job

controller == <<stage, clientConnected>>
theClient == <<client, fetched>>
files == <<file, stdin, exitcode>>
theJob == <<job, pipe, pipeIn>>
vars == <<batch, controller, theClient, files, wrapper, theJob>>

(* The wrapper reads the streams in ready, feeds input up to upto, and has *)
(* begun its last pass over them since the job ended.                      *)
Wrapper == [at : {"none", "check", "select", "read", "feed", "end", "gone"},
            ready : SUBSET Stream, last : 0..MaxIn, upto : 0..MaxIn, late : BOOLEAN]

Init == /\ batch \in [system : {"none", "pbs"}, state : {"none"}, done : {FALSE}]
        /\ stage = "starting" /\ clientConnected = 0
        /\ client = "starting" /\ fetched = [s \in Stream |-> 0]
        /\ file = [s \in Stream |-> 0] /\ stdin = 0 /\ exitcode = FALSE
        /\ wrapper = [at |-> "none", ready |-> {}, last |-> 0, upto |-> 0, late |-> FALSE]
        /\ job = "none" /\ pipe = [s \in Stream |-> 0] /\ pipeIn = 0

-----------------------------------------------------------------------------
(* The job: any program that ends unless it waits for its streams.         *)

jobThinks ==
    /\ job = "thinking"
    /\ \/ \E s \in Stream : file[s] + pipe[s] < MaxOut /\ job' = s
       \/ job' = "stdin"
       \/ job' = "exited"
    /\ UNCHANGED <<batch, controller, theClient, files, wrapper, pipe, pipeIn>>

jobWrites(s) ==
    /\ job = s /\ pipe[s] < Pipe
    /\ pipe' = [pipe EXCEPT ![s] = @ + 1]
    /\ job' = "thinking"
    /\ UNCHANGED <<batch, controller, theClient, files, wrapper, pipeIn>>

jobReads ==
    /\ job = "stdin" /\ pipeIn > 0
    /\ pipeIn' = pipeIn - 1
    /\ job' = "thinking"
    /\ UNCHANGED <<batch, controller, theClient, files, wrapper, pipe>>

Job == jobThinks \/ jobReads \/ \E s \in Stream : jobWrites(s)

-----------------------------------------------------------------------------
(* The wrapper *)

wrapperOnly == UNCHANGED <<batch, controller, theClient, theJob>>

(* Mutant: the loop ends with the job. *)
checkAtOnce ==
    /\ wrapper.at = "check"
    /\ wrapper' = [wrapper EXCEPT !.at = IF job = "exited" THEN "end" ELSE "select"]
    /\ wrapperOnly /\ UNCHANGED files

(* The loop goes on for 1.5 s after the job has ended, long enough for a   *)
(* pass that begins after the end.  Further passes find nothing.           *)
check ==
    /\ wrapper.at = "check"
    /\ wrapper' = IF wrapper.late THEN [wrapper EXCEPT !.at = "end"]
                  ELSE [wrapper EXCEPT !.at = "select", !.late = job = "exited"]
    /\ wrapperOnly /\ UNCHANGED files

select ==
    /\ wrapper.at = "select"
    /\ wrapper' = [wrapper EXCEPT !.at = "read",
                                  !.ready = {s \in Stream : pipe[s] > 0 \/ job = "exited"}]
    /\ wrapperOnly /\ UNCHANGED files

(* The stream that is read: stdout before stderr. *)
reading == IF "stdout" \in wrapper.ready THEN "stdout" ELSE "stderr"

(* A read that fills the buffer is followed by another, of the same pipe. *)
read ==
    LET s == reading
        n == Min({Chunk, pipe[s]})
    IN  /\ wrapper.at = "read" /\ wrapper.ready # {}
        /\ pipe[s] > 0 \/ job = "exited"
        /\ file' = [file EXCEPT ![s] = @ + n]
        /\ pipe' = [pipe EXCEPT ![s] = @ - n]
        /\ wrapper' = IF n = Chunk THEN wrapper ELSE [wrapper EXCEPT !.ready = @ \ {s}]
        /\ UNCHANGED <<batch, controller, theClient, stdin, exitcode, job, pipeIn>>

lookForInput ==
    /\ wrapper.at = "read" /\ wrapper.ready = {}
    /\ wrapper' = [wrapper EXCEPT !.at = "feed", !.upto = stdin]
    /\ wrapperOnly /\ UNCHANGED files

(* A write to a job that has ended kills the wrapper with SIGPIPE. *)
feed ==
    /\ wrapper.at = "feed" /\ wrapper.last < wrapper.upto
    /\ \/ /\ job # "exited" /\ pipeIn < Pipe
          /\ pipeIn' = pipeIn + 1
          /\ wrapper' = [wrapper EXCEPT !.last = @ + 1]
       \/ /\ job = "exited"
          /\ wrapper' = [wrapper EXCEPT !.at = "gone"] /\ UNCHANGED pipeIn
    /\ UNCHANGED <<batch, controller, theClient, files, job, pipe>>

fed ==
    /\ wrapper.at = "feed" /\ wrapper.last = wrapper.upto
    /\ wrapper' = [wrapper EXCEPT !.at = "check"]
    /\ wrapperOnly /\ UNCHANGED files

saveExitCode ==
    /\ wrapper.at = "end"
    /\ exitcode' = TRUE
    /\ wrapper' = [wrapper EXCEPT !.at = "gone"]
    /\ wrapperOnly /\ UNCHANGED <<file, stdin>>

WrapperStep == check \/ select \/ read \/ lookForInput \/ feed \/ fed \/ saveExitCode

-----------------------------------------------------------------------------
(* The batch system: without one the wrapper is a child of the controller; *)
(* PBS starts it when it pleases, and a script notes its end in pbsdone.   *)

startWrapper == /\ wrapper' = [wrapper EXCEPT !.at = "check"]
                /\ job' = "thinking"

wrapperFails == wrapper' = [wrapper EXCEPT !.at = "gone"] /\ UNCHANGED job

pbsStarts ==
    /\ batch.system = "pbs" /\ batch.state = "listed" /\ wrapper.at = "none"
    /\ startWrapper \/ wrapperFails
    /\ UNCHANGED <<batch, controller, theClient, files, pipe, pipeIn>>

pbsEnds ==
    /\ batch.system = "pbs" /\ wrapper.at = "gone"
    /\ \/ ~batch.done /\ batch' = [batch EXCEPT !.done = TRUE]
       \/ batch.done /\ batch.state = "listed" /\ batch' = [batch EXCEPT !.state = "left"]
    /\ UNCHANGED <<controller, theClient, files, wrapper, theJob>>

getJobStatus ==
    CASE batch.system = "none" -> IF wrapper.at = "gone" THEN "finished" ELSE "running"
      [] batch.system = "pbs" /\ batch.state = "none" -> "unknown"
      [] batch.system = "pbs" /\ batch.state = "listed" -> "running"
      [] OTHER -> IF batch.done THEN "finished" ELSE "queued"

-----------------------------------------------------------------------------
(* The controller's main thread *)

mainOnly == UNCHANGED <<clientConnected, theClient, files, pipe, pipeIn>>
goTo(s) == stage' = s /\ mainOnly

alive == stage \notin {"starting", "exited", "failed"}

(* The file "port" is written, or the controller fails before that. *)
startupJobController ==
    /\ stage = "starting"
    /\ goTo("fetching") \/ goTo("failed")
    /\ UNCHANGED <<batch, wrapper, job>>

(* A file that cannot be fetched from the grid ends the controller. *)
fetchInput ==
    /\ stage = "fetching"
    /\ goTo("waiting") \/ goTo("failed")
    /\ UNCHANGED <<batch, wrapper, job>>

waitForClient ==
    /\ stage = "waiting" /\ clientConnected > 0
    /\ goTo("submitting")
    /\ UNCHANGED <<batch, wrapper, job>>

(* The fork may fail, the wrapper may fail in the child; whether qsub has   *)
(* taken the job is not looked at.                                         *)
submitJob ==
    /\ stage = "submitting"
    /\ IF batch.system = "none"
       THEN /\ UNCHANGED batch
            /\ \/ goTo("failed") /\ UNCHANGED <<wrapper, job>>
               \/ goTo("running") /\ (startWrapper \/ wrapperFails)
       ELSE /\ \E st \in {"listed", "refused"} : batch' = [batch EXCEPT !.state = st]
            /\ goTo("running") /\ UNCHANGED <<wrapper, job>>

followJob ==
    /\ stage = "running" /\ getJobStatus = "finished"
    /\ goTo("storing")
    /\ UNCHANGED <<batch, wrapper, job>>

(* Files that cannot be stored are passed over. *)
storeOutput ==
    /\ stage = "storing" /\ goTo("draining")
    /\ UNCHANGED <<batch, wrapper, job>>

(* Mutant: the controller does not wait for the client to leave. *)
leave ==
    /\ stage = "draining" /\ goTo("exited")
    /\ UNCHANGED <<batch, wrapper, job>>

waitForDisconnect ==
    /\ stage = "draining" /\ clientConnected = 0
    /\ goTo("exited")
    /\ UNCHANGED <<batch, wrapper, job>>

MainThread == \/ startupJobController \/ fetchInput \/ waitForClient \/ submitJob
              \/ followJob \/ storeOutput \/ waitForDisconnect

-----------------------------------------------------------------------------
(* The client, and jsListenCallback which serves it *)

clientOnly == UNCHANGED <<batch, stage, wrapper, theJob>>
next(step) == client' = step /\ UNCHANGED fetched
gone == client \in {"done", "dead"}

(* It reads the file "port" and connects; without one, or if the controller *)
(* has gone meanwhile, it gives up.                                        *)
connectToHost ==
    /\ client = "starting"
    /\ IF alive THEN next("connecting") ELSE stage # "starting" /\ next("dead")
    /\ clientOnly /\ UNCHANGED <<clientConnected, files>>

(* Mutant: the callback does not count the connection. *)
acceptUncounted ==
    /\ client = "connecting"
    /\ next(IF alive THEN "output" ELSE "dead")
    /\ clientOnly /\ UNCHANGED <<clientConnected, files>>

acceptConnection ==
    /\ client = "connecting"
    /\ IF alive THEN next("output") /\ clientConnected' = clientConnected + 1
       ELSE next("dead") /\ UNCHANGED clientConnected
    /\ clientOnly /\ UNCHANGED files

(* It gets what each stream has brought since the last time; what is in   *)
(* the files does not change.                                              *)
getNewOutputData ==
    /\ client = "output" /\ alive
    /\ next("stdin")
    /\ clientOnly /\ UNCHANGED <<clientConnected, files>>

(* The user has typed something or has not. *)
sendNewInputData ==
    /\ client = "stdin" /\ alive
    /\ \/ stdin < MaxIn /\ stdin' = stdin + 1
       \/ UNCHANGED stdin
    /\ next("state")
    /\ clientOnly /\ UNCHANGED <<clientConnected, file, exitcode>>

(* It is not told that the job has finished while output is being stored. *)
state == CASE stage = "fetching" -> "fetchingInput"
           [] stage = "storing" -> "storingOutput"
           [] OTHER -> getJobStatus

getJobState ==
    /\ client = "state" /\ alive
    /\ next(IF state = "finished" THEN "files" ELSE "output")
    /\ clientOnly /\ UNCHANGED <<clientConnected, files>>

(* It asks for the names of the files and copies them.  Of a copy that      *)
(* fails the user is told; it is left out.                                  *)
getOutputFiles ==
    /\ client = "files" /\ alive
    /\ fetched' = file /\ client' = "done"
    /\ clientOnly /\ UNCHANGED <<clientConnected, files>>

(* Every call fails when the controller has gone, and the loop goes on. *)
pollNobody ==
    /\ client \in {"output", "stdin", "state"} /\ ~alive
    /\ next(CASE client = "output" -> "stdin" [] client = "stdin" -> "state"
               [] client = "state" -> "output")
    /\ clientOnly /\ UNCHANGED <<clientConnected, files>>

(* CTRL-C; the end of the time for the file "port" has the same effect.    *)
interrupt ==
    /\ ~gone /\ next("dead")
    /\ clientOnly /\ UNCHANGED <<clientConnected, files>>

(* Mutant: a connection that was not counted is uncounted. *)
disconnectAny ==
    /\ gone /\ alive
    /\ clientConnected' = clientConnected - 1
    /\ clientOnly /\ UNCHANGED <<theClient, files>>

(* Mutant: the count is not taken back. *)
disconnectUncounted ==
    /\ gone /\ clientConnected > 0 /\ alive
    /\ clientOnly /\ UNCHANGED <<clientConnected, theClient, files>>

(* The callback reads the end of the connection. *)
disconnect ==
    /\ gone /\ clientConnected > 0 /\ alive
    /\ clientConnected' = clientConnected - 1
    /\ clientOnly /\ UNCHANGED <<theClient, files>>

Client == \/ connectToHost \/ acceptConnection \/ getNewOutputData
          \/ sendNewInputData \/ getJobState \/ getOutputFiles \/ pollNobody \/ disconnect

Next == Job \/ WrapperStep \/ pbsStarts \/ pbsEnds \/ MainThread \/ Client \/ interrupt

Fairness == /\ WF_vars(Job) /\ WF_vars(WrapperStep) /\ WF_vars(pbsStarts) /\ WF_vars(pbsEnds)
            /\ WF_vars(MainThread) /\ WF_vars(Client)

Spec == Init /\ [][Next]_vars /\ Fairness

-----------------------------------------------------------------------------
(* Properties *)

(* Every variable has its type. *)
TypeOK ==
    /\ batch \in [system : {"none", "pbs"}, state : {"none", "listed", "left", "refused"}, done : BOOLEAN]
    /\ stage \in {"starting", "fetching", "waiting", "submitting", "running", "storing",
                  "draining", "exited", "failed"}
    /\ clientConnected \in 0..1
    /\ fetched \in [Stream -> 0..MaxOut]
    /\ client \in {"starting", "connecting", "output", "stdin", "state", "files", "done", "dead"}
    /\ file \in [Stream -> 0..MaxOut] /\ stdin \in 0..MaxIn /\ exitcode \in BOOLEAN
    /\ wrapper \in Wrapper
    /\ job \in Stream \cup {"none", "thinking", "stdin", "exited"}
    /\ pipe \in [Stream -> 0..Pipe] /\ pipeIn \in 0..Pipe

(* The wrapper ended before its work was done: it failed to start, or wrote *)
(* input to a job that had ended.                                          *)
wrapperDied == wrapper.at = "gone" /\ ~exitcode

(* The files that the client copies when it is told that the job has       *)
(* finished hold all that the job wrote, in whatever order the job ended,   *)
(* the wrapper made its last pass and the batch system noticed.            *)
OutputFetched ==
    client = "done" /\ ~wrapperDied => \A s \in Stream : fetched[s] = file[s] + pipe[s]

(* Output is stored on the grid only after the job has ended and all of it  *)
(* is there.                                                               *)
StoredWhole ==
    stage \in {"storing", "draining", "exited"} =>
        \/ wrapperDied
        \/ job = "exited" /\ exitcode /\ \A s \in Stream : pipe[s] = 0

(* No output is lost on either way out, to the client or to the grid. *)
OutputWhole == OutputFetched /\ StoredWhole

(* Seen from outside, an interactive job keeps what InteractiveJob promises *)
(* of its output and of its client.                                        *)
produced == [s \in Stream |-> file[s] + pipe[s]]
closed == IF wrapper.at # "gone" THEN "no" ELSE IF exitcode THEN "saved" ELSE "died"
whereabouts == CASE client \in {"starting", "connecting"} -> "away"
                 [] gone -> client
                 [] OTHER -> "served"

I == INSTANCE InteractiveJob WITH ended <- job = "exited", stored <- stage \in {"draining", "exited"},
                                  client <- whereabouts, left <- stage = "exited"
ImplementsInteractiveJob == I!Spec

(* What keeps a job from ending: its client has gone before main saw it;    *)
(* qsub did not take it; it waits for the user; the wrapper, after a read   *)
(* that filled its buffer, waits for output of a job that waits for it; or  *)
(* each waits for the other to read.                                       *)
nobodyToWaitFor == stage = "waiting" /\ gone /\ clientConnected = 0
waitsForUser == job = "stdin" /\ pipeIn = 0 /\ wrapper.last = stdin
jobBlocked == \/ job = "stdin" /\ pipeIn = 0
              \/ job \in Stream /\ pipe[job] = Pipe
blockedReading == wrapper.at = "read" /\ wrapper.ready # {} /\ pipe[reading] = 0 /\ jobBlocked
blockedWriting == wrapper.at = "feed" /\ pipeIn = Pipe /\ jobBlocked
stuck == \/ nobodyToWaitFor \/ batch.state = "refused" \/ waitsForUser
         \/ blockedReading \/ blockedWriting

(* Where each of the five programs can do nothing, or can only poll: the    *)
(* wrapper when it has nothing to carry, a client that is not told of the   *)
(* end.                                                                    *)
jobWaits == job \in {"none", "exited"} \/ jobBlocked
wrapperWaits ==
    CASE wrapper.at \in {"none", "gone"} -> TRUE
      [] wrapper.at = "read" /\ wrapper.ready # {} -> pipe[reading] = 0 /\ job # "exited"
      [] wrapper.at = "feed" /\ wrapper.last < wrapper.upto -> pipeIn = Pipe /\ job # "exited"
      [] OTHER -> job # "exited" /\ wrapper.last = stdin /\ \A s \in Stream : pipe[s] = 0
batchWaits == batch.system = "pbs" =>
                  /\ batch.state = "listed" => wrapper.at \notin {"none", "gone"}
                  /\ wrapper.at = "gone" => batch.done
mainWaits == \/ stage \in {"exited", "failed"}
             \/ stage = "waiting" /\ clientConnected = 0
             \/ stage = "running" /\ getJobStatus # "finished"
             \/ stage = "draining" /\ clientConnected > 0
clientWaits == \/ gone /\ (clientConnected = 0 \/ ~alive)
               \/ client \in {"output", "stdin", "state"} /\ (~alive \/ state # "finished")

(* When all five wait for one another at once, the job and its client have  *)
(* come to their end, the controller has failed, or it is one of the named  *)
(* cases: there is no other deadlock between wrapper, job, batch system,    *)
(* controller and client.                                                  *)
OnlyNamedWaits ==
    jobWaits /\ wrapperWaits /\ batchWaits /\ mainWaits /\ clientWaits
        => stage = "failed" \/ stuck \/ (stage = "exited" /\ gone)

(* Every job and its client come to their end, but for these.              *)
AllEnd == <>[](stage = "failed" \/ stuck \/ (stage = "exited" /\ gone))
===============================================================================
