--------------------------- MODULE WorkerProcess ----------------------------
(***************************************************************************)
(* The worker program (worker/lib): a process per worker that takes the    *)
(* messages of its own RabbitMQ queue one at a time, acknowledges each     *)
(* before it is processed, runs the task and reports what happens.  The    *)
(* reports are sent by the module that composes this one with the task     *)
(* manager.                                                                *)
(***************************************************************************)
EXTENDS DagService, WorkersService

VARIABLES
    alive,             \* alive[w]: the process runs
    mailbox,           \* mailbox[w]: task messages in the worker's queue
    executing,         \* executing[w]: the task in ExecuteTask, or None
    uploading,         \* uploading[w]: artifacts whose upload is not reported yet
    stored             \* artifacts in the object storage

processVars == <<alive, mailbox, executing, uploading, stored>>

ProcessInit ==
    /\ alive = [w \in Worker |-> TRUE]
    /\ mailbox = [w \in Worker |-> <<>>]
    /\ executing = [w \in Worker |-> None]
    /\ uploading = [w \in Worker |-> {}]
    /\ stored = {}

\* The task manager publishes a task to the queue the worker listens on.
deliver(w, n) ==
    /\ mailbox' = [mailbox EXCEPT ![w] = IF alive[w] THEN Append(@, n) ELSE @]
    /\ UNCHANGED <<alive, executing, uploading, stored>>

\* The consumer hands over the next message: it is acknowledged first.
MessageReceived(w, n) ==
    /\ alive[w]
    /\ executing[w] = None
    /\ mailbox[w] # <<>>
    /\ n = Head(mailbox[w])
    /\ mailbox' = [mailbox EXCEPT ![w] = Tail(@)]

\* The task is parsed and built, and its processing starts.
StartTask(w, n) ==
    /\ MessageReceived(w, n)
    /\ executing' = [executing EXCEPT ![w] = n]
    /\ UNCHANGED <<alive, uploading, stored>>

\* The message cannot be parsed, or no task can be built from it.
RejectTask(w, n) ==
    /\ MessageReceived(w, n)
    /\ UNCHANGED <<alive, executing, uploading, stored>>

\* Process() returns: the results are in the storage, and their names are
\* reported one by one after the completion.
CompleteTask(w, n) ==
    /\ executing[w] = n
    /\ n # None
    /\ uploading[w] = {}
    /\ stored' = stored \cup Results[n]
    /\ uploading' = [uploading EXCEPT ![w] = Results[n]]
    /\ executing' = [executing EXCEPT ![w] = IF Results[n] = {} THEN None ELSE n]
    /\ UNCHANGED <<alive, mailbox>>

ReportArtifact(w, a) ==
    /\ a \in uploading[w]
    /\ uploading' = [uploading EXCEPT ![w] = @ \ {a}]
    /\ executing' = [executing EXCEPT ![w] = IF uploading[w] = {a} THEN None ELSE @]
    /\ UNCHANGED <<alive, mailbox, stored>>

\* Process() throws.
FailTask(w, n) ==
    /\ executing[w] = n
    /\ n # None
    /\ uploading[w] = {}
    /\ executing' = [executing EXCEPT ![w] = None]
    /\ UNCHANGED <<alive, mailbox, uploading, stored>>

\* The process is told to end, and deletes its queue.
StopWorker(w) ==
    /\ alive[w]
    /\ alive' = [alive EXCEPT ![w] = FALSE]
    /\ mailbox' = [mailbox EXCEPT ![w] = <<>>]
    /\ executing' = [executing EXCEPT ![w] = None]
    /\ uploading' = [uploading EXCEPT ![w] = {}]
    /\ UNCHANGED stored
=============================================================================
