------------------------------- MODULE MCLive -------------------------------
(***************************************************************************)
(* What must go on: the transport of the channels, a channel's socket, the  *)
(* database under its handlers, the code interpreter and the page of a      *)
(* conversation.  They share nothing, so part says which of them a          *)
(* behaviour is about and the others stay as they began.  Each has the      *)
(* fairness of its module, while it runs.                                   *)
(***************************************************************************)
EXTENDS Broadcaster, Handlers, FiniteSetsExt, TLC

CONSTANT None

VARIABLE part

-----------------------------------------------------------------------------
(* One socket of one user. *)

VARIABLES redis, home, pc, conns, counts, counter, ttl, reaper, revoked, due, late,
          exists, hubFaults, lost

Hub == INSTANCE Channels WITH
    Sockets <- {"s"}, Users <- {"u"}, Replicas <- {"p"}, Owner <- [s \in {"s"} |-> "u"],
    Homes <- [{"s"} -> {"p"}], Channel <- "channel", Cap <- 1, MaxFaults <- 2,
    faults <- hubFaults

hubVars == <<redis, home, pc, conns, counts, counter, ttl, reaper, revoked, due, late,
             exists, hubFaults, lost>>

-----------------------------------------------------------------------------
(* Two requests, served by one process or by two. *)

CONSTANTS Requests, Spreads, PoolSize, Jobs, Backends, Overlapping, MaxFaults

VARIABLES backend, process, committed, view, job, dbPc, at, snap, had, tx, serial,
          advisory, dbFaults, clean, told

FirstJobs ==
    {SetGroupPermissions(<<"a">>), SetGroupPermissions(<<"b">>),
     SetDefaults(<<<<"a", 1>>, <<"b", 1>>>>), WriteAppearance,
     AddDocumentUrl(<<"a", "b">>), AddCollectionDocumentUrl(<<"a", "b">>),
     UploadDocument(<<"a", "b">>), UploadCollectionDocument(<<"a", "b">>),
     RenameTag, SetTags(<<"a", "b">>), SetMembers(<<"b">>), SetModelAccess(<<"b">>),
     SetConversationCollections(<<"b">>), UpdatePreset(<<"b">>), DeleteFolder,
     CreateShare, OpenDb, Setup}

SecondJobs ==
    {SetGroupPermissions(<<>>), SetGroupPermissions(<<"a", "b">>), GetMatrix,
     SetDefaults(<<<<"b", 1>>, <<"a", 1>>>>), GetDefaults,
     AddDocumentUrl(<<"e", "f">>), DeleteDocument(<<"c", "d">>),
     DeletePreset, DeleteTag, SetTags(<<"b">>), CreateShare, DeleteShare, OpenDb, Setup}

MCJobs == "r1" :> FirstJobs @@ "r2" :> SecondJobs

MCSpreads == {"r1" :> "p1" @@ "r2" :> "p1", "r1" :> "p1" @@ "r2" :> "p2"}

DB == INSTANCE Database WITH
    Homes <- Spreads, home <- process, pc <- dbPc, faults <- dbFaults, seen <- told

\* What DatabaseProofs assumes of the handlers, of SQLite and of the bound on failures.
ASSUME JobsAreUnits == DB!HandlersAreUnits
ASSUME JobsWriteRows == DB!HandlersWriteRows
ASSUME BootsAreOpenDbs == DB!SchemaIsOpenDbs
ASSUME LiteInTurn == Overlapping \subseteq {"postgres"}
ASSUME NobodyIsNone == None \notin Requests
ASSUME FaultBound == MaxFaults \in Nat

dbVars == <<backend, process, committed, view, job, dbPc, at, snap, had, tx, serial,
            advisory, dbFaults, clean, told>>

-----------------------------------------------------------------------------
(* Two runs of code and one slot. *)

CONSTANTS Runs, Slots, Interpreters, MaxCancels, MaxFailures

\* What LiveProofs assumes of the bounds.
ASSUME RunBounds == MaxCancels \in Nat /\ MaxFailures \in Nat

VARIABLES interpreter, runPc, main, children, container, dir, cancels, failures

Exec == INSTANCE CodeExec WITH
    Backends <- Interpreters, backend <- interpreter, pc <- runPc

execVars == <<interpreter, runPc, main, children, container, dir, cancels, failures>>

-----------------------------------------------------------------------------
(* A page, with three turns. *)

CONSTANTS Convs, Home, MaxTurns, MaxExtras, MaxActs

\* What ChatPageProofs assumes.
ASSUME HomeExists == Home \in Convs
ASSUME PageBounds == {MaxActs, MaxTurns} \subseteq Nat /\ None \notin 0..MaxActs

VARIABLES open, messages, queued, streaming, phase, current, requests, loads, store,
          typed, received, orderly, extras

Page == INSTANCE ChatPage

pageVars == <<open, messages, queued, streaming, phase, current, requests, loads, store,
              typed, received, orderly, extras>>

-----------------------------------------------------------------------------
all == <<part, vars, hubVars, dbVars, execVars, pageVars>>

MCInit ==
    /\ part \in {"transport", "hub", "database", "interpreter", "page"}
    /\ Init /\ Hub!Init /\ DB!Init /\ Exec!Init /\ Page!Init
    /\ part # "hub" => ~redis
    /\ part # "database" => backend = "sqlite"
    /\ part # "interpreter" => interpreter = "docker"

MCNext ==
    \/ part = "transport" /\ Next /\ UNCHANGED <<part, hubVars, dbVars, execVars, pageVars>>
    \/ part = "hub" /\ Hub!Next /\ UNCHANGED <<part, vars, dbVars, execVars, pageVars>>
    \/ part = "database" /\ DB!Next /\ UNCHANGED <<part, vars, hubVars, execVars, pageVars>>
    \/ part = "interpreter" /\ Exec!Next /\ UNCHANGED <<part, vars, hubVars, dbVars, pageVars>>
    \/ part = "page" /\ Page!Next /\ UNCHANGED <<part, vars, hubVars, dbVars, execVars>>

MCFairness ==
    /\ WF_vars(part = "transport" /\ ComesBack)
    /\ \A p \in Replicas :
         /\ WF_vars(part = "transport" /\ Reader(p))
         /\ WF_vars(part = "transport" /\ CloseEnds(p))
    /\ WF_hubVars(part = "hub" /\ Hub!Handler("s"))
    /\ WF_hubVars(part = "hub" /\ Hub!IntervalPasses("s"))
    /\ \A r \in Requests : WF_dbVars(part = "database" /\ DB!Step(r))
    /\ \A r \in Runs : WF_execVars(part = "interpreter" /\ Exec!Step(r))
    /\ WF_pageVars(part = "page" /\ Page!Take) /\ WF_pageVars(part = "page" /\ Page!Finish)
    /\ WF_pageVars(part = "page" /\ Page!Read) /\ WF_pageVars(part = "page" /\ Page!Show)
    /\ WF_pageVars(part = "page" /\ Page!StreamEnds)
    /\ WF_pageVars(part = "page" /\ Page!Refused)
    /\ WF_pageVars(part = "page" /\ Page!Settle)
    /\ WF_pageVars(part = "page" /\ Page!Altered)

MCSpec == MCInit /\ [][MCNext]_all /\ MCFairness

-----------------------------------------------------------------------------
\* The type invariants of Broadcaster, Channels, Database, CodeExec and ChatPage.
TypesOK ==
    CASE part = "transport" -> TypeOK
      [] part = "hub" -> Hub!TypeOK
      [] part = "database" -> DB!TypeOK
      [] part = "interpreter" -> Exec!TypeOK
      [] part = "page" -> Page!TypeOK

\* A reader of the transport survives its errors (Broadcaster.ReaderCatchesUp).
ReadersCatchUp == part = "transport" => ReaderCatchesUp

\* A socket whose session was revoked is closed (Channels.RevokedSocketsClose).
RevokedSocketsClose == part = "hub" => Hub!RevokedSocketsClose

\* Units of work are all or nothing (Database.UnitsAreAtomic).
UnitsAreAtomic == DB!UnitsAreAtomic

\* Every request gets its connections and its locks (Database.EveryoneIsServed).
EveryoneIsServed == part = "database" => DB!EveryoneIsServed

\* Replicas that boot at once all come up (Database.BootCompletes).
BootCompletes == DB!BootCompletes

\* Every run of code ends (CodeExec.RunsEnd).
RunsEnd == part = "interpreter" => Exec!RunsEnd

\* A run leaves nothing behind (CodeExec.NothingLeftBehind).
NothingLeftBehind == Exec!NothingLeftBehind

\* The requests of a page follow one another, but for those its user breaks off or that
\* claim no flag; queued turns go where they were typed, in order (ChatPage.OneAtATime,
\* ChatPage.TurnsAsTyped).
RequestsInOrder == Page!OneAtATime /\ Page!TurnsAsTyped

\* A page at rest shows what is stored (ChatPage.ShowsWhatIsStored).
ShowsWhatIsStored == Page!ShowsWhatIsStored

\* A queued turn does not stay in the queue (ChatPage.QueueDrains).
QueueDrains == part = "page" => Page!QueueDrains
=============================================================================
