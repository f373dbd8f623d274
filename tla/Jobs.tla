-------------------------------- MODULE Jobs --------------------------------
(***************************************************************************)
(* Scheduled jobs (services/jobs.rs): the owner stores job specifications  *)
(* in a file that may also be edited by hand, agents propose them, and a    *)
(* scheduler fires them inline or as items of a work queue, here or on a    *)
(* peer.                                                                   *)
(*                                                                         *)
(* A call and a tick hold the state lock for all they do, the rewrite of    *)
(* the file included, and are one step each.  A run is a task of its own    *)
(* with awaits between its steps.                                          *)
(***************************************************************************)
EXTENDS Integers, FiniteSets, Sequences

CONSTANTS
    JobIds,        \* job ids
    Actions,       \* what a job does: opaque
    Triggers,      \* triggers a job may have
    Hosts,         \* where a job may run
    InitialFile,   \* the jobs in the file at the start
    Every,         \* the period of an interval trigger
    Granularity,   \* how long a modified file counts as unsettled
    MaxProposals,  \* open proposals
    MaxClock,      \* bound: time
    MaxOwnerCalls, \* bound: upserts, removals and manual runs
    MaxEdits,      \* bound: edits of the file by hand
    MaxItems,      \* bound: queue items
    MaxCrashes,    \* bound: hub restarts
    MaxWriteFailures \* bound: refused writes

AllHosts == {"inline", "local", "peer"}
Trigger == [kind : {"interval", "once", "manual"}, at : Nat]

Option(S) == {X \in SUBSET S : \A x, y \in X : x = y}

Job == [enabled : BOOLEAN, proposal : BOOLEAN, replaces : Option(JobIds),
        trigger : Trigger, host : AllHosts, action : Actions]
Table == [JobIds -> Option(Job)]

ASSUME TriggersAssumption == Triggers \subseteq Trigger
ASSUME HostsAssumption == Hosts \subseteq AllHosts
ASSUME FileAssumption == InitialFile \in Table
ASSUME JobBoundsAssumption ==
    /\ Every \in Nat \ {0} /\ Granularity \in Nat /\ MaxProposals \in Nat
    /\ MaxClock \in Nat /\ MaxOwnerCalls \in Nat /\ MaxEdits \in Nat
    /\ MaxItems \in Nat /\ MaxCrashes \in Nat /\ MaxWriteFailures \in Nat

VARIABLES
    mem,      \* State: jobs, next, and what was last read of the file
    file,     \* the specification file
    running,  \* State::running
    queued,   \* State::queued, the host of the item a job last submitted
    chan,     \* manual runs on their way to the run loop
    runs,     \* the runs under way of each job
    items,    \* external: items of this hub's jobs in the work queues
    clock,    \* now
    armed,    \* history: how often the owner armed a once trigger
    fired,    \* history: how often it fired
    on,       \* history: jobs the owner last left switched on
    approved, \* history: actions the owner stored or approved
    launched, \* history: actions a run has started
    strayed,  \* history: jobs the schedule fired although switched off
    refused,  \* how many writes were refused
    spent     \* what is used up of the other Max* bounds

tasks == <<running, queued, chan, runs>>
outside == <<items, clock>>
history == <<armed, fired, on, approved, launched, strayed>>
vars == <<mem, file, running, queued, chan, runs, items, clock, armed, fired,
          on, approved, launched, strayed, refused, spent>>

-----------------------------------------------------------------------------
Mem == [jobs : Table, next : [JobIds -> Option(Nat)], seen : Option(Table),
        stamp : Option(Nat)]
File == [spec : Table, readable : BOOLEAN, mtime : Nat]
Run == [phase : {"begun", "asking", "clear", "done"}, job : Job, last : Option(AllHosts)]
QueueItem == [n : Nat, job : JobIds, host : {"local", "peer"},
              state : {"queued", "running"}, known : BOOLEAN]

TypeOK ==
    /\ mem \in Mem /\ file \in File
    /\ running \subseteq JobIds
    /\ queued \in [JobIds -> Option({"local", "peer"})]
    /\ chan \in [JobIds -> Seq(Job)]
    /\ runs \in [JobIds -> Seq(Run)]
    /\ \A x \in items : x \in QueueItem
    /\ clock \in Nat
    /\ armed \in [JobIds -> Nat] /\ fired \in [JobIds -> Nat]
    /\ on \subseteq JobIds
    /\ approved \subseteq Actions /\ launched \subseteq Actions
    /\ strayed \subseteq JobIds /\ refused \in Nat
    /\ spent \in [call : Nat, edit : Nat, item : Nat, crash : Nat]

(* next_run; a daily trigger reads as an interval one.                     *)
NextRun(x) ==
    CASE x.trigger.kind = "interval" -> {clock + Every}
      [] x.trigger.kind = "once"     -> {x.trigger.at}
      [] OTHER                       -> {}

\* Mutant: a time that has passed is not scheduled.
RescheduledFuture(x) ==
    IF x.enabled /\ ~x.proposal THEN {t \in NextRun(x) : t > clock} ELSE {}

(* reschedule.                                                             *)
Rescheduled(x) == IF x.enabled /\ ~x.proposal THEN NextRun(x) ELSE {}

\* Mutant: a row that is known keeps its next run whatever became of it.
SameArmingById(old, x) == old # {}

(* reload: does the row leave arming and trigger as they are?              *)
SameArming(old, x) ==
    \E y \in old : /\ y.enabled = x.enabled
                   /\ y.proposal = x.proposal
                   /\ y.trigger = x.trigger

(* reload.  The stamp of a file that may still change is kept all the same. *)
Settled == clock > file.mtime + Granularity
Reloaded ==
    IF Settled /\ mem.stamp = {file.mtime} THEN mem
    ELSE IF ~file.readable \/ mem.seen = {file.spec}
    THEN [mem EXCEPT !.stamp = {file.mtime}]
    ELSE [jobs |-> file.spec,
          next |-> [j \in JobIds |->
              IF file.spec[j] = {} THEN {}
              ELSE LET x == CHOOSE x \in file.spec[j] : TRUE
                   IN  IF SameArming(mem.jobs[j], x) THEN mem.next[j]
                       ELSE Rescheduled(x)],
          seen |-> {file.spec}, stamp |-> {file.mtime}]

(* persist: a refused write is only logged.                                *)
Persist(m) ==
    \/ /\ file' = [spec |-> m.jobs, readable |-> TRUE, mtime |-> clock]
       /\ mem' = [m EXCEPT !.seen = {m.jobs}]
       /\ UNCHANGED refused
    \/ /\ refused < MaxWriteFailures
       /\ refused' = refused + 1
       /\ mem' = m
       /\ UNCHANGED file

Init ==
    /\ file = [spec |-> InitialFile, readable |-> TRUE, mtime |-> 0]
    /\ clock = 0
    /\ mem = [jobs |-> InitialFile, stamp |-> {0}, seen |-> {InitialFile},
              next |-> [j \in JobIds |->
                            UNION {Rescheduled(x) : x \in InitialFile[j]}]]
    /\ running = {} /\ queued = [j \in JobIds |-> {}]
    /\ chan = [j \in JobIds |-> <<>>] /\ runs = [j \in JobIds |-> <<>>]
    /\ items = {}
    /\ armed = [j \in JobIds |->
           Cardinality({x \in InitialFile[j] : x.trigger.kind = "once"})]
    /\ fired = [j \in JobIds |-> 0]
    /\ on = {j \in JobIds : \E x \in InitialFile[j] : x.enabled}
    /\ approved = {x.action : x \in {y \in UNION {InitialFile[j] : j \in JobIds} :
                                        ~y.proposal}}
    /\ launched = {} /\ strayed = {} /\ refused = 0
    /\ spent = [call |-> 0, edit |-> 0, item |-> 0, crash |-> 0]

-----------------------------------------------------------------------------
(* Calls                                                                   *)

Called == spent.call < MaxOwnerCalls /\ spent' = [spent EXCEPT !.call = @ + 1]

Fresh(j) == \A m \in {mem.jobs, file.spec} : m[j] = {} /\ j \notin running

\* What the owner says of a job by storing it.
Stores(j, x) ==
    /\ armed' = [armed EXCEPT ![j] = IF x.trigger.kind = "once" THEN @ + 1 ELSE @]
    /\ on' = IF x.enabled THEN on \cup {j} ELSE on \ {j}
    /\ approved' = IF x.proposal THEN approved ELSE approved \cup {x.action}
    /\ UNCHANGED <<fired, launched, strayed>>

(* jobs.upsert of a new job or of a row that exists, a proposal included,   *)
(* which becomes a job that way.                                           *)
Upsert(j, x) ==
    /\ Called
    /\ ~x.proposal /\ x.replaces = {}
    /\ Fresh(j) \/ Reloaded.jobs[j] # {}
    /\ Persist([Reloaded EXCEPT !.jobs[j] = {x}, !.next[j] = Rescheduled(x)])
    /\ Stores(j, x)
    /\ UNCHANGED <<tasks, outside>>

\* live_target: the approved job a change is about.
Live(m, j) == \E x \in m.jobs[j] : ~x.proposal

(* jobs.propose: a row of its own, switched off.                           *)
Propose(j, x) ==
    /\ Called
    /\ Fresh(j) /\ x.proposal /\ ~x.enabled
    /\ \A t \in x.replaces : Live(Reloaded, t)
    /\ Cardinality({i \in JobIds : \E y \in Reloaded.jobs[i] : y.proposal}) < MaxProposals
    /\ Persist([Reloaded EXCEPT !.jobs[j] = {x}, !.next[j] = Rescheduled(x)])
    /\ UNCHANGED <<tasks, outside, history>>

\* Mutant: approving a change switches the job on.
ChangedResumes(x, y) ==
    [x EXCEPT !.trigger = y.trigger, !.action = y.action, !.host = y.host,
              !.enabled = TRUE]

(* The row a change leaves: only the spec moves.                           *)
Changed(x, y) ==
    [x EXCEPT !.trigger = y.trigger, !.action = y.action, !.host = y.host]

(* jobs.upsert that approves the change `p`.                               *)
Approve(p) ==
    /\ Called
    /\ \E y \in Reloaded.jobs[p] : \E t \in y.replaces :
          /\ y.proposal /\ Live(Reloaded, t)
          /\ LET z == Changed(CHOOSE x \in Reloaded.jobs[t] : TRUE, y)
             IN  Persist([Reloaded EXCEPT !.jobs[t] = {z}, !.jobs[p] = {},
                              !.next[p] = {}, !.next[t] = Rescheduled(z)])
          /\ armed' = [armed EXCEPT ![t] =
                           IF y.trigger.kind = "once" THEN @ + 1 ELSE @]
          /\ approved' = approved \cup {y.action}
    /\ UNCHANGED <<tasks, outside, fired, on, launched, strayed>>

(* jobs.remove leaves a run of the job alone.                              *)
StillRunning(j) == running

(* jobs.remove, with the changes proposed to the job.                      *)
Remove(j) ==
    /\ Called
    /\ Persist([Reloaded EXCEPT
           !.next[j] = {},
           !.jobs = [i \in JobIds |->
               IF i = j \/ \E x \in Reloaded.jobs[i] : x.proposal /\ j \in x.replaces
               THEN {} ELSE Reloaded.jobs[i]]])
    /\ running' = StillRunning(j)
    /\ UNCHANGED <<queued, chan, runs, outside, history>>

(* jobs.run refuses a proposal.                                            *)
Runnable(m, j) == Live(m, j)

(* jobs.run.                                                               *)
RunNow(j) ==
    /\ Called
    /\ Runnable(Reloaded, j)
    /\ \/ j \in running /\ UNCHANGED <<running, chan>>
       \/ /\ j \notin running
          /\ running' = running \cup {j}
          /\ chan' = [chan EXCEPT ![j] =
                 Append(@, CHOOSE x \in Reloaded.jobs[j] : TRUE)]
    /\ mem' = Reloaded
    /\ UNCHANGED <<file, queued, runs, outside, history, refused>>

-----------------------------------------------------------------------------
(* The scheduler                                                           *)

DueJobs(m) ==
    {j \in JobIds : /\ \E x \in m.jobs[j] : x.enabled /\ ~x.proposal
                   /\ \E at \in m.next[j] : at <= clock}
OnceJobs(m) ==
    {j \in DueJobs(m) : \E x \in m.jobs[j] : x.trigger.kind = "once"}

\* Mutant: a once trigger loses its next run but stays enabled.
FiredStaysOn(m, j) == m.jobs[j]

(* due: a once trigger is disarmed before its run.                         *)
Fired(m, j) ==
    IF j \in OnceJobs(m) THEN {[x EXCEPT !.enabled = FALSE] : x \in m.jobs[j]}
    ELSE m.jobs[j]

(* due: disarm and save, or reschedule; what already runs is skipped.      *)
Due ==
    LET m == Reloaded
        due == DueJobs(m)
        once == OnceJobs(m)
        after == [m EXCEPT
            !.jobs = [j \in JobIds |-> Fired(m, j)],
            !.next = [j \in JobIds |->
                IF j \in once THEN {}
                ELSE IF j \in due THEN UNION {Rescheduled(x) : x \in m.jobs[j]}
                ELSE m.next[j]]]
    IN  /\ \/ once # {} /\ Persist(after)
           \/ once = {} /\ mem' = after /\ UNCHANGED <<file, refused>>
        /\ running' = running \cup due
        /\ runs' = [j \in JobIds |->
               IF j \in due \ running
               THEN Append(runs[j], [phase |-> "begun", last |-> {},
                                     job |-> CHOOSE x \in after.jobs[j] : TRUE])
               ELSE runs[j]]
        /\ fired' = [j \in JobIds |-> IF j \in once THEN fired[j] + 1 ELSE fired[j]]
        /\ strayed' = strayed \cup (due \ on)
        /\ UNCHANGED <<queued, chan, outside, armed, on, approved, launched, spent>>

(* run: a manual run leaves the channel.                                   *)
Take(j) ==
    /\ chan[j] # <<>>
    /\ chan' = [chan EXCEPT ![j] = Tail(@)]
    /\ runs' = [runs EXCEPT ![j] =
           Append(@, [phase |-> "begun", last |-> {}, job |-> Head(chan[j])])]
    /\ UNCHANGED <<mem, file, running, queued, outside, history, refused, spent>>

InPhase(j, p) == runs[j] # <<>> /\ Head(runs[j]).phase = p
To(j, p) == runs' = [runs EXCEPT ![j][1].phase = p]
JobOf(j) == Head(runs[j]).job

(* perform: the action of an inline job.                                   *)
Perform(j) ==
    /\ InPhase(j, "begun") /\ JobOf(j).host = "inline"
    /\ To(j, "done")
    /\ launched' = launched \cup {JobOf(j).action}
    /\ UNCHANGED <<mem, file, running, queued, chan, outside, armed, fired, on,
                   approved, strayed, refused, spent>>

(* execute: the last item's place is read when the work begins, before the  *)
(* awaits that ask for it.                                                 *)
ReadLast(j) ==
    /\ InPhase(j, "begun") /\ JobOf(j).host # "inline"
    /\ runs' = [runs EXCEPT ![j][1].phase = "asking", ![j][1].last = queued[j]]
    /\ UNCHANGED <<mem, file, running, queued, chan, outside, history, refused, spent>>

ItemsOf(j, h) == {x \in items : x.job = j /\ x.host = h}

\* Mutant: a peer that cannot be asked has no item of the job.
FreeUnlessSeen(j, last, answers) ==
    /\ ItemsOf(j, "local") = {}
    /\ "peer" \in last /\ answers => ItemsOf(j, "peer") = {}

(* job_item_active: a peer that cannot be asked counts as still running.   *)
Free(j, last, answers) ==
    /\ ItemsOf(j, "local") = {}
    /\ "peer" \in last => answers /\ ItemsOf(j, "peer") = {}

(* perform_queued: refuse to overlap the previous item.                    *)
Check(j, answers) ==
    /\ InPhase(j, "asking")
    /\ To(j, IF Free(j, Head(runs[j]).last, answers) THEN "clear" ELSE "done")
    /\ UNCHANGED <<mem, file, running, queued, chan, outside, history, refused, spent>>

Submitted(j, h, known) ==
    /\ spent.item < MaxItems
    /\ spent' = [spent EXCEPT !.item = @ + 1]
    /\ items' = items \cup {[n |-> spent.item, job |-> j, host |-> h,
                            state |-> "queued", known |-> known]}
    /\ launched' = launched \cup {JobOf(j).action}

(* execute: where the item is.                                             *)
Remembered(j) == [queued EXCEPT ![j] = {JobOf(j).host}]

(* perform_queued and execute: the answer of the submission is recorded.   *)
Submit(j) ==
    /\ InPhase(j, "clear") /\ To(j, "done")
    /\ Submitted(j, JobOf(j).host, TRUE)
    /\ queued' = Remembered(j)
    /\ UNCHANGED <<mem, file, running, chan, clock, armed, fired, on, approved,
                   strayed, refused>>

(* submit_peer: the peer took the item, its answer was lost or late.       *)
SubmitUnknown(j) ==
    /\ InPhase(j, "clear") /\ To(j, "done")
    /\ JobOf(j).host = "peer"
    /\ Submitted(j, "peer", FALSE)
    /\ UNCHANGED <<mem, file, running, queued, chan, clock, armed, fired, on,
                   approved, strayed, refused>>

(* execute: the run is over, done, failed, vetoed or timed out.            *)
Finish(j) ==
    /\ runs[j] # <<>>
    /\ runs' = [runs EXCEPT ![j] = Tail(@)]
    /\ running' = running \ {j}
    /\ UNCHANGED <<mem, file, queued, chan, outside, history, refused, spent>>

-----------------------------------------------------------------------------
(* External: the work queues, the editor, time and crashes                 *)

ItemStarts(x) ==
    /\ x.state = "queued"
    /\ items' = (items \ {x}) \cup {[x EXCEPT !.state = "running"]}
    /\ UNCHANGED <<mem, file, tasks, clock, history, refused, spent>>

ItemEnds(x) ==
    /\ items' = items \ {x}
    /\ UNCHANGED <<mem, file, tasks, clock, history, refused, spent>>

\* The owner edits a row of the file; sizes are equal, the worst case.
Edit(j, x) ==
    /\ spent.edit < MaxEdits
    /\ spent' = [spent EXCEPT !.edit = @ + 1]
    /\ file.readable
    /\ file' = [file EXCEPT !.spec[j] = {x}, !.mtime = clock]
    /\ Stores(j, x)
    /\ UNCHANGED <<mem, tasks, outside, refused>>

\* An edit that leaves the file unreadable.
Spoil ==
    /\ spent.edit < MaxEdits
    /\ spent' = [spent EXCEPT !.edit = @ + 1]
    /\ file' = [file EXCEPT !.readable = FALSE, !.mtime = clock]
    /\ UNCHANGED <<mem, tasks, outside, history, refused>>

TimePasses ==
    /\ clock < MaxClock
    /\ clock' = clock + 1
    /\ UNCHANGED <<mem, file, tasks, items, history, refused, spent>>

(* The hub stops and starts again (open_with_queue).  An unreadable file    *)
(* leaves no jobs.  The local queue settles what ran and keeps the rest;    *)
(* the peer's items go on and are no longer known.                         *)
Restart ==
    /\ spent.crash < MaxCrashes
    /\ spent' = [spent EXCEPT !.crash = @ + 1]
    /\ mem' = IF file.readable
              THEN [jobs |-> file.spec, seen |-> {file.spec}, stamp |-> {file.mtime},
                    next |-> [j \in JobIds |->
                                 UNION {Rescheduled(x) : x \in file.spec[j]}]]
              ELSE [jobs |-> [j \in JobIds |-> {}], seen |-> {}, stamp |-> {file.mtime},
                    next |-> [j \in JobIds |-> {}]]
    /\ running' = {} /\ queued' = [j \in JobIds |-> {}]
    /\ chan' = [j \in JobIds |-> <<>>] /\ runs' = [j \in JobIds |-> <<>>]
    /\ items' = {x \in items : x.host = "local" /\ x.state = "queued"}
                \cup {[x EXCEPT !.known = FALSE] : x \in {y \in items : y.host = "peer"}}
    /\ UNCHANGED <<file, clock, history, refused>>

-----------------------------------------------------------------------------
(* Specification                                                           *)

\* The rows callers and editors write.
Rows == [enabled : BOOLEAN, proposal : {FALSE}, replaces : {{}},
         trigger : Triggers, host : Hosts, action : Actions]
Proposals == [enabled : {FALSE}, proposal : {TRUE}, replaces : Option(JobIds),
              trigger : Triggers, host : Hosts, action : Actions]

Calls ==
    \E j \in JobIds : \/ Remove(j) \/ RunNow(j) \/ Approve(j)
                      \/ \E x \in Rows : Upsert(j, x)
                      \/ \E x \in Proposals : Propose(j, x)

Scheduler ==
    \/ Due
    \/ \E j \in JobIds : \/ Take(j) \/ Perform(j) \/ ReadLast(j) \/ Submit(j)
                         \/ SubmitUnknown(j) \/ Finish(j)
                         \/ \E answers \in BOOLEAN : Check(j, answers)

Environment ==
    \/ TimePasses \/ Restart \/ Spoil
    \/ \E x \in items : ItemStarts(x) \/ ItemEnds(x)
    \/ \E j \in JobIds, x \in Rows : Edit(j, x)

Next == Calls \/ Scheduler \/ Environment

Spec == Init /\ [][Next]_vars

(* The tick comes every 30 seconds, tasks run on and end (every run has a   *)
(* budget of 15 minutes), and time passes.                                 *)
FairSpec ==
    /\ Spec
    /\ WF_vars(Due) /\ WF_vars(TimePasses)
    /\ \A j \in JobIds : WF_vars(Take(j)) /\ WF_vars(Finish(j))

-----------------------------------------------------------------------------
(* Properties                                                              *)

(* A job is marked running exactly while one run of it is under way or on   *)
(* its way: never two runs at once, and no mark that nobody will clear.    *)
RunningIsRun ==
    \A j \in JobIds :
        Len(chan[j]) + Len(runs[j]) = IF j \in running THEN 1 ELSE 0

(* The timetable follows the specifications through calls, hand edits,      *)
(* firings and restarts: exactly the enabled, approved jobs with a timed    *)
(* trigger have a next run.                                                *)
ScheduledIffArmed ==
    \A j \in JobIds :
        mem.next[j] # {} <=>
            \E x \in mem.jobs[j] :
                x.enabled /\ ~x.proposal /\ x.trigger.kind # "manual"

(* A once trigger fires at most once for each time the owner armed it,      *)
(* across restarts ("disables at fire time even if execution fails").      *)
OnceFires == \A j \in JobIds : fired[j] <= armed[j]

(* What an agent proposed never runs before the owner approved it, by the   *)
(* schedule or by hand.                                                    *)
ApprovedOnly == launched \subseteq approved

(* The schedule never fires a job the owner last left switched off, through *)
(* edits and approvals of changes ("approving an edit never resumes a job   *)
(* the user paused").                                                      *)
PausedNeverFires == strayed = {}

(* Nothing runs against the owner's last word.                             *)
OwnerDecides == ApprovedOnly /\ PausedNeverFires

(* At most one item of a job that the hub knows of is queued or running on  *)
(* the hosts together, whatever the peer answers and however the job's host *)
(* was changed ("the overlap rule now covers the whole item lifetime").    *)
KnownItemsAlone ==
    \A j \in JobIds : Cardinality({x \in items : x.job = j /\ x.known}) <= 1

(* The overlap rule, on states of the right shape: one run of a job at a    *)
(* time in this process, and one of its items on all hosts together.       *)
NeverOverlaps == TypeOK /\ RunningIsRun /\ KnownItemsAlone

(* An armed once trigger fires or is taken back.                           *)
OnceEventuallyFires ==
    \A j \in JobIds :
        LET waits == \E x \in mem.jobs[j] : /\ x.enabled /\ ~x.proposal
                                             /\ x.trigger.kind = "once"
                                             /\ x.trigger.at <= MaxClock
        IN  waits ~> ~waits

=============================================================================
