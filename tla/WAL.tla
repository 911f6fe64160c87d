-------------------------------- MODULE WAL --------------------------------
(***************************************************************************)
(* The write-ahead log of core/storage/wal: any number of goroutines call  *)
(* Append, which hands the entry to ONE writer goroutine over a buffered   *)
(* channel and blocks until the writer has answered; the writer cuts the   *)
(* log into files of at most MaxFileSize bytes; Close stops the writer;    *)
(* after a crash New reopens the last file and Replay reads every file.    *)
(*                                                                         *)
(* A record is what one call of writeEntry puts into a file: an entry, or  *)
(* Torn when only some of its bytes got there.  A record knows the offset  *)
(* it ends at, which is all that the size tests look at.                   *)
(***************************************************************************)
EXTENDS Naturals, Sequences

CONSTANTS
    Clients,      \* the goroutines that call Append
    Entries,      \* the entries, each appended at most once
    EntryLen,     \* EntryLen[e] = len(e.ToBytes())
    MaxFileSize,  \* Config.MaxFileSize
    ChanCap,      \* capacity of writeCh (1000 in the code)
    FsyncModes,   \* the values of Config.Fsync to consider
    Torn,         \* the body of a record that was cut short
    None,         \* no entry, no request
    MaxCrashes    \* bound: how often the process may die

ASSUME WALAssumption ==
    /\ EntryLen \in [Entries -> Nat \ {0}]
    /\ MaxFileSize \in Nat \ {0}
    /\ ChanCap \in Nat \ {0}
    /\ FsyncModes \subseteq BOOLEAN
    /\ MaxCrashes \in Nat
    /\ Torn \notin Entries
    /\ None \notin Entries
    /\ None # Torn
    /\ None \notin [client : Clients, entry : Entries]

VARIABLES
    \* On disk.
    files,        \* files[n + 1] is the content of <prefix>-<n>.wal
    synced,       \* synced[f]: how many records of files[f] are on stable storage
    \* In the process.
    fsync,        \* Config.Fsync, the same in every process
    up,           \* the process is running
    closed,       \* WAL.closed (and closeCh, closed right after it)
    writeCh,      \* the buffered channel of requests
    writer,       \* where the writer goroutine is
    draining,     \* the writer is in flushPending
    cur,          \* the request the writer is serving
    fileOpen,     \* currentFile is an open handle
    fileSequence, \* WAL.fileSequence: the number of the current file
    currentSize,  \* WAL.currentSize
    append,       \* append[c]: where client c's call of Append is
    entry,        \* entry[c]: the entry of that call
    errCh,        \* errCh[c]: what the writer sent on the call's errCh
    \* History.
    started,      \* entries passed to Append so far
    acked,        \* entries whose Append returned nil
    before,       \* <<e, f>>: e was acknowledged before Append(f) was called
    replayed,     \* what the last Replay delivered
    powerLost,    \* some crash was a power loss
    crashes       \* number of crashes so far

diskVars    == <<files, synced>>
writerVars  == <<writer, draining, cur, fileOpen, fileSequence, currentSize>>
clientVars  == <<append, entry>>
historyVars == <<started, acked, before, replayed, powerLost, crashes>>
vars == <<diskVars, fsync, up, closed, writeCh, writerVars, clientVars, errCh, historyVars>>

Record  == [body : Entries \cup {Torn}, end : Nat]
Request == [client : Clients, entry : Entries]

TypeOK ==
    /\ files \in Seq(Seq(Record)) /\ files # << >>
    /\ synced \in Seq(Nat) /\ Len(synced) = Len(files)
    /\ \A f \in DOMAIN files : synced[f] <= Len(files[f])
    /\ fsync \in FsyncModes
    /\ up \in BOOLEAN
    /\ closed \in BOOLEAN
    /\ writeCh \in Seq(Request)
    /\ writer \in {"select", "write", "partial", "sync", "stopped"}
    /\ draining \in BOOLEAN
    /\ cur \in Request \cup {None}
    /\ fileOpen \in BOOLEAN
    /\ fileSequence \in Nat /\ fileSequence < Len(files)
    /\ currentSize \in Nat
    /\ append \in [Clients -> {"idle", "checked", "waiting"}]
    /\ entry \in [Clients -> Entries \cup {None}]
    /\ errCh \in [Clients -> {"empty", "nil", "error"}]
    /\ started \subseteq Entries
    /\ acked \subseteq Entries
    /\ before \subseteq Entries \X Entries
    /\ replayed \subseteq Entries
    /\ powerLost \in BOOLEAN
    /\ crashes \in Nat

-----------------------------------------------------------------------------
(* Files.                                                                  *)

current == fileSequence + 1   \* the index in files of the current file

\* info.Size() of a file.
FileSize(f) == IF files[f] = << >> THEN 0 ELSE files[f][Len(files[f])].end

\* The file in which a record with body b and n bytes is appended to file f.
WithRecord(f, b, n) ==
    [files EXCEPT ![f] = Append(@, [body |-> b, end |-> FileSize(f) + n])]

\* The bytes a record has reached when the write of its length, or of its
\* checksum, was the last one to succeed.
PartialBytes == {4, 8}

RecordBytes(e) == 8 + EntryLen[e]

\* The rotation test of writeEntry counts 8+4 bytes of header, 4 too many.
MustRotate(e) == currentSize + 12 + EntryLen[e] > MaxFileSize

\* The entries that Replay delivers: files in sequence order, each from its
\* beginning; ReadEntry fails on a torn record and that ends the whole replay.
Intact(f, i) ==
    /\ \A j \in 1..i : files[f][j].body # Torn
    /\ \A g \in 1..(f - 1) : \A j \in 1..Len(files[g]) : files[g][j].body # Torn

\* Mutant: the files before the current one only.
ReplaySkipsLast ==
    UNION {{files[f][i].body : i \in {j \in DOMAIN files[f] : Intact(f, j)}}
              : f \in 1..(Len(files) - 1)}

Replay ==
    UNION {{files[f][i].body : i \in {j \in DOMAIN files[f] : Intact(f, j)}}
              : f \in DOMAIN files}

-----------------------------------------------------------------------------
(* The initial state: New on an empty directory has created file 0.        *)

Init ==
    /\ files = << << >> >>
    /\ synced = <<0>>
    /\ fsync \in FsyncModes
    /\ up = TRUE
    /\ closed = FALSE
    /\ writeCh = << >>
    /\ writer = "select"
    /\ draining = FALSE
    /\ cur = None
    /\ append = [c \in Clients |-> "idle"]
    /\ entry = [c \in Clients |-> None]
    /\ errCh = [c \in Clients |-> "empty"]
    /\ fileOpen = TRUE
    /\ fileSequence = 0
    /\ currentSize = 0
    /\ started = {}
    /\ acked = {}
    /\ before = {}
    /\ replayed = {}
    /\ powerLost = FALSE
    /\ crashes = 0

-----------------------------------------------------------------------------
(* Append, run by a client.                                                *)

\* The test of closed under the read lock.  A call that finds it set returns
\* an error and changes nothing.
AppendCheck(c, e) ==
    /\ up
    /\ append[c] = "idle"
    /\ e \notin started
    /\ ~closed
    /\ append' = [append EXCEPT ![c] = "checked"]
    /\ entry' = [entry EXCEPT ![c] = e]
    /\ errCh' = [errCh EXCEPT ![c] = "empty"]
    /\ started' = started \cup {e}
    /\ before' = before \cup (acked \X {e})
    /\ UNCHANGED <<diskVars, fsync, up, closed, writeCh, writerVars,
                   acked, replayed, powerLost, crashes>>

\* case w.writeCh <- req: a buffered send needs room and nothing else.
AppendSend(c) ==
    /\ up
    /\ append[c] = "checked"
    /\ Len(writeCh) < ChanCap
    /\ writeCh' = Append(writeCh, [client |-> c, entry |-> entry[c]])
    /\ append' = [append EXCEPT ![c] = "waiting"]
    /\ UNCHANGED <<diskVars, fsync, up, closed, writerVars, entry, errCh, historyVars>>

\* case <-w.doneCh: the writer is gone, the call returns an error.
AppendRefused(c) ==
    /\ up
    /\ append[c] = "checked"
    /\ writer = "stopped"
    /\ append' = [append EXCEPT ![c] = "idle"]
    /\ entry' = [entry EXCEPT ![c] = None]
    /\ UNCHANGED <<diskVars, fsync, up, closed, writeCh, writerVars, errCh, historyVars>>

\* return <-errCh.
AppendReturn(c) ==
    /\ up
    /\ append[c] = "waiting"
    /\ errCh[c] # "empty"
    /\ acked' = IF errCh[c] = "nil" THEN acked \cup {entry[c]} ELSE acked
    /\ append' = [append EXCEPT ![c] = "idle"]
    /\ entry' = [entry EXCEPT ![c] = None]
    /\ errCh' = [errCh EXCEPT ![c] = "empty"]
    /\ UNCHANGED <<diskVars, fsync, up, closed, writeCh, writerVars,
                   started, before, replayed, powerLost, crashes>>

-----------------------------------------------------------------------------
(* The writer goroutine.                                                   *)

\* The writer answers the request it serves and goes back to its loop.
Answer(result) ==
    /\ errCh' = [errCh EXCEPT ![cur.client] = result]
    /\ writer' = "select"
    /\ cur' = None

\* req := <-w.writeCh, in the loop of writer or of flushPending, and the
\* rotation at the start of writeEntry.
Take ==
    /\ up
    /\ writer = "select"
    /\ writeCh # << >>
    /\ writeCh' = Tail(writeCh)

WriterTake ==
    /\ Take
    /\ ~MustRotate(Head(writeCh).entry)
    /\ cur' = Head(writeCh)
    /\ writer' = "write"
    /\ UNCHANGED <<diskVars, fsync, up, closed, draining, fileOpen, fileSequence,
                   currentSize, clientVars, errCh, historyVars>>

\* Mutant: the number goes up and the file is not created.
RotateWithoutCreate ==
    /\ Take
    /\ MustRotate(Head(writeCh).entry)
    /\ fileOpen
    /\ cur' = Head(writeCh)
    /\ writer' = "write"
    /\ fileSequence' = fileSequence + 1
    /\ currentSize' = 0
    /\ UNCHANGED <<diskVars, fsync, up, closed, draining, fileOpen, clientVars, errCh, historyVars>>

\* rotateFile closes the current file and creates the next one.
WriterRotate ==
    /\ Take
    /\ MustRotate(Head(writeCh).entry)
    /\ fileOpen
    /\ cur' = Head(writeCh)
    /\ writer' = "write"
    /\ files' = Append(files, << >>)
    /\ synced' = Append(synced, 0)
    /\ fileSequence' = fileSequence + 1
    /\ currentSize' = 0
    /\ UNCHANGED <<fsync, up, closed, draining, fileOpen, clientVars, errCh, historyVars>>

\* Mutant: the error of rotateFile does not reach the caller.
RotateFailsSilently ==
    /\ Take
    /\ MustRotate(Head(writeCh).entry)
    /\ fileOpen' = FALSE
    /\ UNCHANGED <<diskVars, fsync, up, closed, writer, draining, cur, fileSequence, currentSize,
                   clientVars, errCh, historyVars>>

\* rotateFile fails: the old file is closed (or was closed already, and its
\* second Close is the error) and the new one is not there.
WriterRotateFails ==
    /\ Take
    /\ MustRotate(Head(writeCh).entry)
    /\ fileOpen' = FALSE
    /\ errCh' = [errCh EXCEPT ![Head(writeCh).client] = "error"]
    /\ UNCHANGED <<diskVars, fsync, up, closed, writer, draining, cur, fileSequence, currentSize,
                   clientVars, historyVars>>

\* The writes of the length and of the checksum: part of the record is there.
WritePart ==
    /\ up
    /\ writer = "write"
    /\ fileOpen
    /\ \E n \in PartialBytes : files' = WithRecord(current, Torn, n)
    /\ writer' = "partial"
    /\ UNCHANGED <<synced, fsync, up, closed, writeCh, draining, cur, fileOpen, fileSequence,
                   currentSize, clientVars, errCh, historyVars>>

\* The write of the data completes the record.
WriteData ==
    /\ up
    /\ writer = "partial"
    /\ LET l == Len(files[current])
           start == IF l = 1 THEN 0 ELSE files[current][l - 1].end
       IN  files' = [files EXCEPT ![current][l] =
                        [body |-> cur.entry, end |-> start + RecordBytes(cur.entry)]]
    /\ currentSize' = currentSize + RecordBytes(cur.entry)
    /\ writer' = "sync"
    /\ UNCHANGED <<synced, fsync, up, closed, writeCh, draining, cur, fileOpen, fileSequence,
                   clientVars, errCh, historyVars>>

\* One of the three writes fails.  What was written stays in the file and
\* currentSize does not count it.
WriteFails ==
    /\ up
    /\ writer \in {"write", "partial"}
    /\ Answer("error")
    /\ UNCHANGED <<diskVars, fsync, up, closed, writeCh, draining, fileOpen, fileSequence,
                   currentSize, clientVars, historyVars>>

\* Mutant: the answer does not wait for the fsync.
AnswerWithoutSync ==
    /\ up
    /\ writer = "sync"
    /\ Answer("nil")
    /\ UNCHANGED <<diskVars, fsync, up, closed, writeCh, draining, fileOpen, fileSequence,
                   currentSize, clientVars, historyVars>>

\* The fsync before the acknowledgement, if configured.
WriterSync ==
    /\ up
    /\ writer = "sync"
    /\ synced' = IF fsync THEN [synced EXCEPT ![current] = Len(files[current])] ELSE synced
    /\ Answer("nil")
    /\ UNCHANGED <<files, fsync, up, closed, writeCh, draining, fileOpen, fileSequence,
                   currentSize, clientVars, historyVars>>

\* The record is in the file and the caller is told that it is not.
WriterSyncFails ==
    /\ up
    /\ writer = "sync"
    /\ fsync
    /\ Answer("error")
    /\ UNCHANGED <<diskVars, fsync, up, closed, writeCh, draining, fileOpen, fileSequence,
                   currentSize, clientVars, historyVars>>

\* case <-w.closeCh.
WriterDrain ==
    /\ up
    /\ writer = "select"
    /\ closed
    /\ ~draining
    /\ draining' = TRUE
    /\ UNCHANGED <<diskVars, fsync, up, closed, writeCh, writer, cur, fileOpen, fileSequence,
                   currentSize, clientVars, errCh, historyVars>>

\* Mutant: an error of the final sync returns before close(doneCh).
StopOnlyIfOpen ==
    /\ up
    /\ writer = "select"
    /\ draining
    /\ writeCh = << >>
    /\ fileOpen
    /\ writer' = "stopped"
    /\ fileOpen' = FALSE
    /\ synced' = IF fsync THEN [synced EXCEPT ![current] = Len(files[current])] ELSE synced
    /\ UNCHANGED <<files, fsync, up, closed, writeCh, draining, cur, fileSequence, currentSize,
                   clientVars, errCh, historyVars>>

\* flushPending found the channel empty: sync (an error is ignored), close,
\* close(doneCh).
WriterStop ==
    /\ up
    /\ writer = "select"
    /\ draining
    /\ writeCh = << >>
    /\ writer' = "stopped"
    /\ fileOpen' = FALSE
    /\ \/ fsync /\ fileOpen /\ synced' = [synced EXCEPT ![current] = Len(files[current])]
       \/ synced' = synced
    /\ UNCHANGED <<files, fsync, up, closed, writeCh, draining, cur, fileSequence, currentSize,
                   clientVars, errCh, historyVars>>

\* Close: sets closed, closes closeCh and then waits for the writer to stop.
Close ==
    /\ up
    /\ ~closed
    /\ closed' = TRUE
    /\ UNCHANGED <<diskVars, fsync, up, writeCh, writerVars, clientVars, errCh, historyVars>>

-----------------------------------------------------------------------------
(* Crashes and restarts.                                                   *)

\* The process dies; every call in flight dies with it.
Die ==
    /\ up
    /\ crashes < MaxCrashes
    /\ crashes' = crashes + 1
    /\ up' = FALSE
    /\ closed' = FALSE
    /\ writeCh' = << >>
    /\ writer' = "select"
    /\ draining' = FALSE
    /\ cur' = None
    /\ append' = [c \in Clients |-> "idle"]
    /\ entry' = [c \in Clients |-> None]
    /\ errCh' = [c \in Clients |-> "empty"]
    /\ fileOpen' = FALSE
    /\ fileSequence' = 0
    /\ currentSize' = 0

\* The process is killed: the page cache keeps every byte written.
Crash ==
    /\ Die
    /\ UNCHANGED <<diskVars, fsync, started, acked, before, replayed, powerLost>>

\* What a power loss may leave of file f: every synced record, some of the
\* records after them, and perhaps the extent of the next one without its data.
Remnants(f) ==
    LET kept(n) == SubSeq(files[f], 1, n)
    IN  {kept(n) : n \in synced[f]..Len(files[f])} \cup
        {Append(kept(n), [body |-> Torn, end |-> files[f][n + 1].end])
            : n \in synced[f]..(Len(files[f]) - 1)}

\* The names of the files are taken to be durable, although the directory is never
\* synced.
PowerLoss ==
    /\ Die
    /\ files' \in {g \in [DOMAIN files -> UNION {Remnants(f) : f \in DOMAIN files}] :
                      \A f \in DOMAIN files : g[f] \in Remnants(f)}
    /\ synced' = [f \in DOMAIN files |-> Len(files'[f])]
    /\ powerLost' = TRUE
    /\ UNCHANGED <<fsync, started, acked, before, replayed>>

\* Mutant: New reopens the first file.
RestartAtFirst ==
    /\ ~up
    /\ up' = TRUE
    /\ fileSequence' = 0
    /\ currentSize' = FileSize(1)
    /\ fileOpen' = TRUE
    /\ replayed' = Replay
    /\ UNCHANGED <<diskVars, fsync, closed, writeCh, writer, draining, cur, clientVars, errCh,
                   started, acked, before, powerLost, crashes>>

\* New and then Replay: the last file is reopened for appending unless it is
\* full, at the size it has on disk, a torn record at its end included.
Restart ==
    /\ ~up
    /\ up' = TRUE
    /\ LET latest == Len(files)
       IN  \/ /\ FileSize(latest) < MaxFileSize
              /\ fileSequence' = latest - 1
              /\ currentSize' = FileSize(latest)
              /\ UNCHANGED diskVars
           \/ /\ FileSize(latest) >= MaxFileSize
              /\ fileSequence' = latest
              /\ currentSize' = 0
              /\ files' = Append(files, << >>)
              /\ synced' = Append(synced, 0)
    /\ fileOpen' = TRUE
    /\ replayed' = Replay
    /\ UNCHANGED <<fsync, closed, writeCh, writer, draining, cur, clientVars, errCh,
                   started, acked, before, powerLost, crashes>>

-----------------------------------------------------------------------------
Writer ==
    \/ WriterTake \/ WriterRotate \/ WriterRotateFails
    \/ WritePart \/ WriteData \/ WriteFails
    \/ WriterSync \/ WriterSyncFails
    \/ WriterDrain \/ WriterStop

Client(c) ==
    \/ \E e \in Entries : AppendCheck(c, e)
    \/ AppendSend(c) \/ AppendRefused(c) \/ AppendReturn(c)

Next ==
    \/ \E c \in Clients : Client(c)
    \/ Writer
    \/ Close
    \/ Crash \/ PowerLoss \/ Restart

Spec == Init /\ [][Next]_vars

\* The Go scheduler runs every goroutine that can run: the writer, and a
\* client that is inside Append.  A sender blocked on a full channel is served
\* in turn (the runtime queues senders first in, first out), hence the strong
\* fairness of the send.  Nobody has to call Append or Close.
Fairness ==
    /\ WF_vars(Writer)
    /\ \A c \in Clients : SF_vars(AppendSend(c) \/ AppendRefused(c))
    /\ \A c \in Clients : WF_vars(AppendReturn(c))

FairSpec == Spec /\ Fairness

-----------------------------------------------------------------------------
(* Properties.                                                             *)

\* Positions <<f, i>> of the log at which e is recorded, in all files and
\* among the records on stable storage.
OnDisk(e) ==
    \E f \in DOMAIN files : \E i \in 1..Len(files[f]) : files[f][i].body = e

OnStableStorage(e) ==
    \E f \in DOMAIN files : \E i \in 1..synced[f] : files[f][i].body = e

\* An acknowledged Append is never lost by a crash: with Fsync its record is
\* on stable storage and survives a power loss, without Fsync it survives as
\* long as only the process dies.  This is the order of writeEntry (write,
\* then Sync, then the answer) across rotation, failed writes and restarts.  It
\* holds as soon as the answer waits for the caller, and for its own entry.
AckedDurable ==
    \A e \in acked \cup {entry[c] : c \in {d \in Clients : errCh[d] = "nil"}} :
        IF fsync THEN OnStableStorage(e) ELSE powerLost \/ OnDisk(e)

\* The log keeps the order in which callers saw their appends complete: if
\* Append(e) had returned nil before Append(f) was called, Replay meets e
\* first, whatever rotations, crashes and reopenings lie between.  The memtable
\* is rebuilt in this order and its last row wins.
LogKeepsOrder ==
    \A p \in before : \A f, g \in DOMAIN files :
        \A i \in 1..Len(files[f]), j \in 1..Len(files[g]) :
            (files[f][i].body = p[1] /\ files[g][j].body = p[2])
                => (f < g \/ (f = g /\ i < j))

\* A restart brings every acknowledged entry back, provided no torn record
\* lies in the log (and, without fsync, the power never failed).
NoTornRecord ==
    \A f \in DOMAIN files : \A i \in 1..Len(files[f]) : files[f][i].body # Torn

CleanReplay ==
    [][(~up /\ up') /\ NoTornRecord /\ (fsync \/ ~powerLost) => acked \subseteq replayed']_vars

\* Every call of Append returns while nobody closes the log.
AppendReturnsUnlessClosed ==
    \A c \in Clients : append[c] # "idle" ~> (append[c] = "idle" \/ closed)

\* Close returns: the writer drains the channel and stops.
CloseReturns == closed ~> (writer = "stopped" \/ ~closed)
=============================================================================
