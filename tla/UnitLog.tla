------------------------------ MODULE UnitLog ------------------------------
(***************************************************************************)
(* unitlogd and unitlogctl: the log, the index of the boots in it, and the *)
(* processes that write the two files:                                     *)
(*   - the daemon, which closes the boot a crash left open, opens a new    *)
(*     one and closes it when it stops, each time in the index and then in *)
(*     the log, without the lock;                                          *)
(*   - its thread for /dev/log, which logs every message under the lock;   *)
(*   - its thread for /proc/kmsg, which may append kmsg.log to the log     *)
(*     without the lock, through the same FILE of the process;             *)
(*   - unitlogctl, which cuts boots out of the log and rebuilds the index. *)
(* An offset is the number of lines before a line.  A file that is removed *)
(* lives on for those that opened it: logFile and indexFile name the file  *)
(* the path leads to, and what is written to another one is lost.          *)
(* A line is written with fprintf and is its own format (file.c:112,       *)
(* client.c:419): what a text becomes by that is Printed.                  *)
(***************************************************************************)
EXTENDS Integers, Sequences, FiniteSets, SequencesExt

CONSTANTS Ctls,         \* the runs of unitlogctl that may be at work at a time
          Texts,        \* the sorts of text that messages have
          MaxBoots,     \* bound: starts of the daemon
          MaxMessages,  \* bound: messages sent to /dev/log
          MaxKernel,    \* bound: starts of the daemon that append kmsg.log
          MaxRequests,  \* bound: vacuums and repairs
          MaxCrashes    \* bound: crashes of the daemon and of unitlogctl, together

ASSUME LogAssumption ==
  /\ Ctls # {} /\ "none" \notin Ctls /\ "daemon" \notin Ctls
  /\ Texts \subseteq {"plain", "percent", "escaped", "char"}
  /\ {MaxBoots, MaxMessages, MaxKernel, MaxRequests, MaxCrashes} \subseteq Nat
-----------------------------------------------------------------------------
VARIABLES
  log,          \* the lines of UNITLOGD_LOG_PATH
  index,        \* the entries of UNITLOGD_INDEX_PATH, each with its offset in the log
  tmp,          \* the lines of the temporary log; empty when there is none
  logFile, indexFile,   \* which files the two paths lead to
  lock,         \* who has the lock of UNITLOGD_LOCK_PATH
  daemon,       \* the daemon's main thread: where it is and the entry it writes
  unix,         \* its /dev/log thread: where it is and the message it processes
  kernel,       \* its /proc/kmsg thread
  opened,       \* UNITLOGD_LOG_FILE of the daemon: the file it is, 0 for NULL
  ctl,          \* ctl[c]: where the run c of unitlogctl is and what it has computed
  boots, sent, kernels, requests, crashes,    \* what the bounds count
  logged,       \* the messages written to the log (history)
  cut,          \* the boots that a vacuum has removed (history)
  disturbed,    \* two have been at work at a time that no lock keeps apart (history)
  interrupted   \* a unitlogctl has crashed at work (history)

files == <<log, index, tmp, logFile, indexFile>>
threads == <<daemon, unix, kernel, opened>>
counts == <<boots, sent, kernels, requests, crashes>>
vars == <<log, index, tmp, logFile, indexFile, lock, daemon, unix, kernel, opened, ctl,
          boots, sent, kernels, requests, crashes, logged, cut, disturbed, interrupted>>

(* The sorts of text, and what is written of them: nothing is changed of a *)
(* plain one; a conversion is replaced (percent); of "%%" one "%" is left, *)
(* a conversion the next time (escaped); "%c" becomes a NUL (char); before *)
(* a NUL the writing ends, and the newline is lost (nul); the next line    *)
(* then goes on where the text breaks off (broken).  A "%n" ends the       *)
(* process: that is a crash.                                               *)
Printed == [plain |-> "plain", percent |-> "plain", escaped |-> "percent",
            char |-> "nul", nul |-> "broken", broken |-> "broken"]
Rewritten(line) == [line EXCEPT !.text = Printed[@]]

Started(b)   == [kind |-> "start", boot |-> b, id |-> 0, text |-> "plain"]
Finished(b)  == [kind |-> "finish", boot |-> b, id |-> 0, text |-> "plain"]
Message(b, n, text) == [kind |-> "message", boot |-> b, id |-> n, text |-> text]
(* What kmsg.log has was printed once, and what is behind a NUL is not read. *)
KernelLine(b) == [kind |-> "kernel", boot |-> b, id |-> 0, text |-> "plain"]
Entry(line, offset) == [kind |-> line.kind, boot |-> line.boot, offset |-> offset]

(* The line n is not read as one: it goes on with the line before it.      *)
Joined(s, n) == n > 1 /\ s[n - 1].text = "broken"

Idle == [at |-> "idle", from |-> 0, to |-> 0, pos |-> 0, cuts |-> {}, entries |-> <<>>,
         file |-> 0]
Listening == [at |-> "idle", id |-> 0, text |-> "plain"]
Down == [at |-> "down", job |-> Started(0), offset |-> 0, log |-> 0, index |-> 0]
-----------------------------------------------------------------------------
(* What getIndex reads in the log: the lines between an entry and the next *)
(* one are skipped, and a second start before the boot is finished is      *)
(* skipped like a message.                                                 *)
ParseLine(acc, line, offset) ==
  IF line.kind = "start" /\ ~acc.open
  THEN [acc EXCEPT !.open = TRUE, !.boot = line.boot, !.entries = Append(@, Entry(line, offset))]
  ELSE IF line.kind = "finish" /\ acc.open
  THEN [acc EXCEPT !.open = FALSE, !.ok = @ /\ line.boot = acc.boot,
                   !.entries = Append(@, Entry(line, offset))]
  ELSE [acc EXCEPT !.ok = @ /\ acc.open]

ReadLine(acc, s, n) == IF Joined(s, n) THEN acc ELSE ParseLine(acc, s[n], n - 1)

(* What it has read of the lines s after each of them.                     *)
Reading(s) ==
  LET upto[n \in 0..Len(s)] ==
        IF n = 0 THEN [ok |-> TRUE, open |-> FALSE, boot |-> 0, entries |-> <<>>]
                 ELSE ReadLine(upto[n - 1], s, n)
  IN upto

Parsed == Reading(log)[Len(log)]

(* What getIndex demands of the index: starts and finishes take turns, and *)
(* a finish is of the boot started before it.                              *)
WellFormed ==
  \A i \in DOMAIN index :
    IF i % 2 = 1 THEN index[i].kind = "start"
    ELSE index[i].kind = "finish" /\ index[i].boot = index[i - 1].boot

MatchLogLine(e) ==
  /\ e.offset < Len(log)
  /\ log[e.offset + 1].kind = e.kind /\ log[e.offset + 1].boot = e.boot

IntegrityCheck == WellFormed /\ \A i \in DOMAIN index : MatchLogLine(index[i])

(* The position of the last boot of the index, counted from 0.             *)
MaxIdx == IF Len(index) % 2 = 0 THEN (Len(index) - 2) \div 2 ELSE (Len(index) - 1) \div 2

Stop(idx) == IF 2 * idx + 2 \in DOMAIN index THEN index[2 * idx + 2].offset ELSE Len(log) - 1

Shown(first, last) ==
  {n \in first..last : log[n].kind \in {"message", "kernel"} \/ (n > first /\ Joined(log, n))}

(* Seeded bug: the position of the boot taken for the position of its entry. *)
BugShowBoot(idx) == Shown(index[idx + 1].offset + 1, Stop(idx) + 1)

(* The lines that show-boot prints for the boot at position idx: between   *)
(* its start and its finish, or the end of the log.                        *)
ShowBoot(idx) == Shown(index[2 * idx + 1].offset + 1, Stop(idx) + 1)
-----------------------------------------------------------------------------
Busy == {c \in Ctls : ctl[c].at # "idle"}
Writing == daemon.at \in {"index", "log"}
Appending == kernel \in {"write", "close", "closed"}

(* Two are at work that the lock does not keep apart: two unitlogctl, or   *)
(* one and the daemon at its entries, or the kernel thread and another.    *)
Unguarded ==
  \/ \E c, d \in Busy : c # d
  \/ Writing /\ Busy # {}
  \/ Appending /\ (Busy # {} \/ unix.at # "idle")

Note == disturbed' = (disturbed \/ Unguarded')

Init ==
  /\ log = <<>> /\ index = <<>> /\ tmp = <<>> /\ logFile = 1 /\ indexFile = 1
  /\ lock = "none" /\ daemon = Down
  /\ unix = Listening /\ kernel = "idle" /\ opened = 0
  /\ ctl = [c \in Ctls |-> Idle]
  /\ boots = 0 /\ sent = 0 /\ kernels = 0 /\ requests = 0 /\ crashes = 0
  /\ logged = {} /\ cut = {} /\ disturbed = FALSE /\ interrupted = FALSE

(* The next entry the daemon writes, at the end of the log, with the files *)
(* it opens now.                                                           *)
Writes(line) ==
  daemon' = [at |-> "index", job |-> line, offset |-> Len(log),
             log |-> logFile, index |-> indexFile]

(* Seeded bug: a boot that a crash left open is not finished.              *)
BugStarts ==
  /\ daemon.at = "down" /\ boots < MaxBoots /\ IntegrityCheck
  /\ Writes(Started(boots + 1)) /\ boots' = boots + 1
  /\ UNCHANGED <<files, lock, unix, kernel, opened, ctl, sent, kernels, requests, crashes,
                 logged, cut, interrupted>>
  /\ Note

(* main, unitlogdInit: the integrity check, then the finish of a boot that *)
(* a crash has left open, or the start of the new one.  A daemon whose     *)
(* check fails exits.                                                      *)
DaemonStarts ==
  /\ daemon.at = "down" /\ boots < MaxBoots /\ IntegrityCheck
  /\ Writes(IF Len(index) % 2 = 1 THEN Finished(Last(index).boot) ELSE Started(boots + 1))
  /\ boots' = boots + 1
  /\ UNCHANGED <<files, lock, unix, kernel, opened, ctl, sent, kernels, requests, crashes,
                 logged, cut, interrupted>>
  /\ Note

WriteIndexEntry ==
  /\ daemon.at = "index" /\ daemon' = [daemon EXCEPT !.at = "log"]
  /\ index' = IF daemon.index = indexFile THEN Append(index, Entry(daemon.job, daemon.offset))
                                          ELSE index
  /\ UNCHANGED <<log, tmp, logFile, indexFile, lock, unix, kernel, opened, ctl, counts, logged,
                 cut, interrupted>>
  /\ Note

LogWith(line) == IF daemon.log = logFile THEN Append(log, line) ELSE log

(* After the finish of the boot left open comes the start of the new one,  *)
(* and after that the daemon serves.  After its own finish it is gone.     *)
WriteLogEntry ==
  /\ daemon.at = "log" /\ log' = LogWith(daemon.job)
  /\ LET closes == daemon.job.kind = "finish" /\ daemon.job.boot # boots
     IN \/ /\ closes
           /\ daemon' = [at |-> "index", job |-> Started(boots), offset |-> Len(log'),
                         log |-> logFile, index |-> indexFile]
           /\ UNCHANGED kernel
        \/ /\ daemon.job.kind = "start" /\ daemon' = [daemon EXCEPT !.at = "run"]
           /\ kernel' = "begin"
        \/ /\ daemon.job.kind = "finish" /\ ~closes /\ daemon' = Down /\ UNCHANGED kernel
  /\ UNCHANGED <<index, tmp, logFile, indexFile, lock, unix, opened, ctl, counts, logged, cut,
                 interrupted>>
  /\ Note

(* Seeded bug: the finish of a boot that has not been started.             *)
BugStops ==
  /\ daemon.at = "run" /\ unix.at = "idle" /\ kernel \in {"idle", "begin"}
  /\ Writes(Finished(boots + 1)) /\ kernel' = "idle"
  /\ UNCHANGED <<files, lock, unix, opened, ctl, counts, logged, cut, interrupted>>
  /\ Note

(* SIGTERM: stopSockets waits for the threads, which read their pipes      *)
(* before anything else, then unitlogdShutdown.                            *)
DaemonStops ==
  /\ daemon.at = "run" /\ unix.at = "idle" /\ kernel \in {"idle", "begin"}
  /\ Writes(Finished(boots)) /\ kernel' = "idle"
  /\ UNCHANGED <<files, lock, unix, opened, ctl, counts, logged, cut, interrupted>>
  /\ Note

(* The daemon is gone at once: killed, aborted, or the machine crashes.    *)
Gone ==
  /\ daemon' = Down /\ unix' = Listening /\ kernel' = "idle" /\ opened' = 0
  /\ lock' = IF lock = "daemon" THEN "none" ELSE lock

DaemonCrashes ==
  /\ daemon.at # "down" /\ crashes < MaxCrashes /\ crashes' = crashes + 1
  /\ Gone
  /\ UNCHANGED <<files, ctl, boots, sent, kernels, requests, logged, cut, interrupted>>
  /\ Note
-----------------------------------------------------------------------------
(* unitlogdOpenLog does nothing while the FILE of the process is open.     *)
Open == opened' = IF opened = 0 THEN logFile ELSE opened

LogLine(line) == log' = IF opened = logFile THEN Append(log, Rewritten(line)) ELSE log

(* A message of any sort of text has come.                                 *)
Receive ==
  /\ sent' = sent + 1
  /\ \E text \in Texts : unix' = [at |-> "write", id |-> sent + 1, text |-> text]

(* Seeded bug: a message is logged without waiting for the lock.           *)
BugUnixLock ==
  /\ daemon.at = "run" /\ unix.at = "idle" /\ sent < MaxMessages
  /\ Receive /\ Open
  /\ UNCHANGED <<files, lock, daemon, kernel, ctl, boots, kernels, requests, crashes, logged,
                 cut, interrupted>>
  /\ Note

(* startUnixThread: a message is received, the lock is taken, processLine  *)
(* opens the log.                                                          *)
UnixLock ==
  /\ daemon.at = "run" /\ unix.at = "idle" /\ sent < MaxMessages /\ lock = "none"
  /\ Receive /\ lock' = "daemon" /\ Open
  /\ UNCHANGED <<files, daemon, kernel, ctl, boots, kernels, requests, crashes, logged, cut,
                 interrupted>>
  /\ Note

(* The other thread may have closed the FILE: then the assertion aborts. *)
UnixWrite ==
  /\ unix.at = "write" /\ opened # 0
  /\ LogLine(Message(boots, unix.id, unix.text))
  /\ logged' = logged \cup {Message(boots, unix.id, unix.text)}
  /\ unix' = [unix EXCEPT !.at = "close"]
  /\ UNCHANGED <<index, tmp, logFile, indexFile, lock, daemon, kernel, opened, ctl, counts, cut,
                 interrupted>>
  /\ Note

UnixCloses ==
  /\ unix.at = "close" /\ opened' = 0 /\ unix' = [unix EXCEPT !.at = "closed"]
  /\ UNCHANGED <<files, lock, daemon, kernel, ctl, counts, logged, cut, interrupted>>
  /\ Note

(* Or it has opened it again: then another assertion aborts.               *)
UnixUnlock ==
  /\ unix.at = "closed" /\ opened = 0 /\ lock' = "none" /\ unix' = Listening
  /\ UNCHANGED <<files, daemon, kernel, opened, ctl, counts, logged, cut, interrupted>>
  /\ Note

(* startForwarderThread: with the first records of the boot kmsg.log is    *)
(* emptied, otherwise appendKmsg copies it, here of one line.              *)
KernelBegins ==
  /\ kernel = "begin"
  /\ \/ kernel' = "idle" /\ UNCHANGED <<kernels, opened>>
     \/ /\ kernels < MaxKernel /\ kernels' = kernels + 1
        /\ kernel' = "write" /\ Open
  /\ UNCHANGED <<files, lock, daemon, unix, ctl, boots, sent, requests, crashes, logged, cut,
                 interrupted>>
  /\ Note

KernelWrites ==
  /\ kernel = "write" /\ opened # 0
  /\ LogLine(KernelLine(boots)) /\ kernel' = "close"
  /\ UNCHANGED <<index, tmp, logFile, indexFile, lock, daemon, unix, opened, ctl, counts, logged,
                 cut, interrupted>>
  /\ Note

KernelCloses ==
  /\ kernel = "close" /\ opened' = 0 /\ kernel' = "closed"
  /\ UNCHANGED <<files, lock, daemon, unix, ctl, counts, logged, cut, interrupted>>
  /\ Note

KernelEnds ==
  /\ kernel = "closed" /\ opened = 0 /\ kernel' = "idle"
  /\ UNCHANGED <<files, lock, daemon, unix, opened, ctl, counts, logged, cut, interrupted>>
  /\ Note

AssertionFails ==
  /\ \/ opened = 0 /\ (unix.at = "write" \/ kernel = "write")
     \/ opened # 0 /\ (unix.at = "closed" \/ kernel = "closed")
  /\ Gone
  /\ UNCHANGED <<files, ctl, counts, logged, cut, interrupted>>
  /\ Note
-----------------------------------------------------------------------------
Requested(c) == ctl[c].at = "idle" /\ requests < MaxRequests /\ requests' = requests + 1

CtlDoes(c) ==
  /\ UNCHANGED <<threads, boots, sent, kernels, crashes, logged, interrupted>>
  /\ Note

(* vacuum: the positions are checked and turned into offsets with the      *)
(* index as it is before the lock is taken.  first > last is accepted, and *)
(* the boot at position MaxIdx, which may be the running one, is not.      *)
Vacuum(c, first, last) ==
  /\ Requested(c)
  /\ WellFormed /\ MaxIdx > 0 /\ first < MaxIdx /\ last < MaxIdx
  /\ ctl' = [ctl EXCEPT ![c] = [at |-> "lock", from |-> index[2 * first + 1].offset,
                                to |-> index[2 * last + 2].offset, pos |-> 1, entries |-> <<>>,
                                file |-> 0, cuts |-> {index[2 * i + 1].boot : i \in first..last}]]
  /\ UNCHANGED <<files, lock, cut>> /\ CtlDoes(c)

CtlLock(c) ==
  /\ ctl[c].at = "lock" /\ lock = "none" /\ lock' = c
  /\ ctl' = [ctl EXCEPT ![c].at = "copy"]
  /\ UNCHANGED <<files, requests, cut>> /\ CtlDoes(c)

(* The line that getline reads begins before n where lines are joined.     *)
LineOf(n) == CHOOSE k \in 1..n : ~Joined(log, k) /\ \A j \in (k + 1)..n : Joined(log, j)

(* Seeded bug: the last line of the boot is kept.                          *)
BugCopyLine(c) ==
  LET n == ctl[c].pos IN
  /\ ctl[c].at = "copy" /\ n <= Len(log)
  /\ tmp' = IF LineOf(n) - 1 < ctl[c].from \/ LineOf(n) - 1 >= ctl[c].to
             THEN Append(tmp, Rewritten(log[n])) ELSE tmp
  /\ ctl' = [ctl EXCEPT ![c].pos = n + 1]
  /\ UNCHANGED <<log, index, logFile, indexFile, lock, requests, cut>> /\ CtlDoes(c)

(* cutLog: the lines outside of the offsets are appended to the temporary  *)
(* log, which create-tmp-log touches and does not empty.  The offset of a  *)
(* line with a NUL comes out greater, but not as great as that of the next.*)
CopyLine(c) ==
  LET n == ctl[c].pos IN
  /\ ctl[c].at = "copy" /\ n <= Len(log)
  /\ tmp' = IF LineOf(n) - 1 < ctl[c].from \/ LineOf(n) - 1 > ctl[c].to
             THEN Append(tmp, Rewritten(log[n])) ELSE tmp
  /\ ctl' = [ctl EXCEPT ![c].pos = n + 1]
  /\ UNCHANGED <<log, index, logFile, indexFile, lock, requests, cut>> /\ CtlDoes(c)

(* ren-tmp-log: rm of the log, and then mv.                                *)
RemoveLog(c) ==
  /\ ctl[c].at = "copy" /\ ctl[c].pos > Len(log)
  /\ log' = <<>> /\ logFile' = logFile + 1
  /\ ctl' = [ctl EXCEPT ![c].at = "rename"]
  /\ UNCHANGED <<index, tmp, indexFile, lock, requests, cut>> /\ CtlDoes(c)

(* Seeded bug: the index is not rebuilt after the cut.                     *)
BugRenameLog(c) ==
  /\ ctl[c].at = "rename" /\ log' = tmp /\ tmp' = <<>> /\ logFile' = logFile + 1
  /\ ctl' = [ctl EXCEPT ![c].at = "end"] /\ cut' = cut \cup ctl[c].cuts
  /\ UNCHANGED <<index, indexFile, lock, requests>> /\ CtlDoes(c)

RenameLog(c) ==
  /\ ctl[c].at = "rename" /\ log' = tmp /\ tmp' = <<>> /\ logFile' = logFile + 1
  /\ ctl' = [ctl EXCEPT ![c].at = "parse"] /\ cut' = cut \cup ctl[c].cuts
  /\ UNCHANGED <<index, indexFile, lock, requests>> /\ CtlDoes(c)

(* unitlogctl index-repair: indexRepair without the lock.                  *)
Repair(c) ==
  /\ Requested(c) /\ ctl' = [ctl EXCEPT ![c] = [Idle EXCEPT !.at = "parse"]]
  /\ UNCHANGED <<files, lock, cut>> /\ CtlDoes(c)

(* A log that does not parse, or without entries, leaves the index as it is. *)
ParseLog(c) ==
  /\ ctl[c].at = "parse"
  /\ ctl' = [ctl EXCEPT ![c].entries = Parsed.entries,
                        ![c].at = IF Parsed.ok /\ Parsed.entries # <<>> THEN "create" ELSE "end"]
  /\ UNCHANGED <<files, lock, requests, cut>> /\ CtlDoes(c)

CreateIndex(c) ==
  /\ ctl[c].at = "create" /\ index' = <<>> /\ indexFile' = indexFile + 1
  /\ ctl' = [ctl EXCEPT ![c].at = "open"]
  /\ UNCHANGED <<log, tmp, logFile, lock, requests, cut>> /\ CtlDoes(c)

OpenIndex(c) ==
  /\ ctl[c].at = "open" /\ ctl' = [ctl EXCEPT ![c].at = "write", ![c].file = indexFile]
  /\ UNCHANGED <<files, lock, requests, cut>> /\ CtlDoes(c)

(* The entries are written one by one.                                     *)
WriteIndex(c) ==
  LET entries == ctl[c].entries IN
  /\ ctl[c].at = "write" /\ entries # <<>>
  /\ index' = IF ctl[c].file = indexFile THEN Append(index, Head(entries)) ELSE index
  /\ ctl' = [ctl EXCEPT ![c].entries = Tail(entries),
                        ![c].at = IF Len(entries) = 1 THEN "end" ELSE "write"]
  /\ UNCHANGED <<log, tmp, logFile, indexFile, lock, requests, cut>> /\ CtlDoes(c)

CtlEnds(c) ==
  /\ ctl[c].at = "end" /\ ctl' = [ctl EXCEPT ![c] = Idle]
  /\ lock' = IF lock = c THEN "none" ELSE lock
  /\ UNCHANGED <<files, requests, cut>> /\ CtlDoes(c)

(* unitlogctl is interrupted at work: the kernel releases the lock, the    *)
(* files stay as they are.                                                 *)
CtlCrashes(c) ==
  /\ ctl[c].at # "idle" /\ crashes < MaxCrashes /\ crashes' = crashes + 1
  /\ interrupted' = TRUE
  /\ ctl' = [ctl EXCEPT ![c] = Idle] /\ lock' = IF lock = c THEN "none" ELSE lock
  /\ UNCHANGED <<files, threads, boots, sent, kernels, requests, logged, cut>>
  /\ Note
-----------------------------------------------------------------------------
Unitlogctl(c) ==
  \/ \E first, last \in 0..MaxBoots : Vacuum(c, first, last)
  \/ CtlLock(c) \/ CopyLine(c) \/ RemoveLog(c) \/ RenameLog(c)
  \/ Repair(c) \/ ParseLog(c) \/ CreateIndex(c) \/ OpenIndex(c) \/ WriteIndex(c)
  \/ CtlEnds(c) \/ CtlCrashes(c)

Next ==
  \/ DaemonStarts \/ WriteIndexEntry \/ WriteLogEntry \/ DaemonStops \/ DaemonCrashes
  \/ UnixLock \/ UnixWrite \/ UnixCloses \/ UnixUnlock
  \/ KernelBegins \/ KernelWrites \/ KernelCloses \/ KernelEnds \/ AssertionFails
  \/ \E c \in Ctls : Unitlogctl(c)

Spec == Init /\ [][Next]_vars
-----------------------------------------------------------------------------
Lines == [kind : {"start", "finish", "message", "kernel"}, boot : 0..MaxBoots,
          id : 0..MaxMessages, text : DOMAIN Printed]
Entries == [kind : {"start", "finish"}, boot : 0..MaxBoots, offset : Nat]

TypeOK ==
  /\ log \in Seq(Lines) /\ tmp \in Seq(Lines) /\ index \in Seq(Entries)
  /\ lock \in Ctls \cup {"none", "daemon"}
  /\ daemon.at \in {"down", "index", "log", "run"} /\ daemon.job \in Lines
  /\ unix.at \in {"idle", "write", "close", "closed"}
  /\ kernel \in {"idle", "begin", "write", "close", "closed"}
  /\ \A c \in Ctls : /\ ctl[c].at \in {"idle", "lock", "copy", "rename", "parse", "create",
                                       "open", "write", "end"}
                     /\ ctl[c].cuts \subseteq 1..MaxBoots
  /\ logged \subseteq Lines /\ cut \subseteq 1..MaxBoots

(* The runs in which nothing has happened that no lock and no check guards *)
(* against, and no message has a "%c", which can glue two lines together.  *)
Undisturbed == ~disturbed /\ ~interrupted
Orderly == Undisturbed /\ "char" \notin Texts
Quiet == Busy = {} /\ ~Writing

(* A line of the log is what has become of a message.                      *)
SameLine(line, m) == line.kind = m.kind /\ line.boot = m.boot /\ line.id = m.id

(* A message that has been written to the log stays there, once, until a   *)
(* vacuum removes its boot, and as it was sent if it has no conversion; no *)
(* crash of the daemon and no vacuum of other boots takes it away (the     *)
(* lock around processLine and cutLog).                                    *)
LoggedIsKept ==
  Orderly /\ Quiet =>
    \A m \in logged : m.boot \notin cut =>
      \E n \in DOMAIN log : /\ {k \in DOMAIN log : SameLine(log[k], m)} = {n}
                            /\ m.text = "plain" => log[n] = m

(* A vacuum leaves no line of the boots it was asked to remove, and never  *)
(* removes the boot of the running daemon.                                 *)
CutIsGone ==
  /\ Orderly /\ Quiet => \A n \in DOMAIN log : log[n].boot \notin cut
  /\ daemon.at = "run" => boots \notin cut

(* Whenever no vacuum is about to rename the log, the log can be read by   *)
(* getIndex, so that index-repair can rebuild the index whatever crash has *)
(* left the index behind: the index is always written before the log.      *)
LogIsReadable ==
  Orderly /\ (\A c \in Ctls : ctl[c].at # "rename") => Parsed.ok

(* While the daemon serves, and after it has stopped if it has never       *)
(* crashed, the index has exactly the boots of the log at their offsets: a *)
(* repair would change nothing, and the integrity check of the next start  *)
(* does not refuse.                                                        *)
IndexIsTrue ==
  Orderly /\ Quiet /\ (daemon.at = "run" \/ crashes = 0) =>
    index = Parsed.entries /\ IntegrityCheck

(* show-boot prints what was logged in that boot and nothing of another.   *)
ShowIsExact ==
  Orderly /\ Quiet /\ daemon.at = "run" =>
    \A idx \in 0..MaxIdx :
      LET b == index[2 * idx + 1].boot
      IN /\ \A n \in ShowBoot(idx) : log[n].boot = b
         /\ \A m \in logged : m.boot = b => \E n \in ShowBoot(idx) : SameLine(log[n], m)

(* What the manual says of vacuum, with crashes of unitlogctl too: once it *)
(* has renamed the log, the lines of the boots it removes are gone.        *)
VacuumRemoves == Quiet /\ ~disturbed => \A n \in DOMAIN log : log[n].boot \notin cut
=============================================================================
