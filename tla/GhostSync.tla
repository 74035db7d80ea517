----------------------------- MODULE GhostSync -----------------------------
(***************************************************************************)
(* The ghost service keeps the configuration directory of the phone (src)  *)
(* and its copy on a storage (dst) the same.  Its monitor thread reads     *)
(* inotify events of both: what happens to src it does to dst, and what    *)
(* others do to dst it undoes.  Its own copies come back as events of dst, *)
(* for which it keeps a drop list of events to ignore: kinds of events,    *)
(* not names.  The service thread re-mounts: it takes the watches away,    *)
(* copies both ways and sets the watches again.  data_lock is held by the  *)
(* one or the other, and by nobody else who changes a file.                *)
(*                                                                         *)
(* A storage may be full or broken for a while.  Copies then end early or  *)
(* not begin, files cannot be deleted, folders not be made and directories *)
(* not be watched; ghost retries nothing by itself.                        *)
(*                                                                         *)
(* An application's write is one step, at its close; so is a copy of one   *)
(* file.  The directory src is always there.                               *)
(***************************************************************************)
EXTENDS Integers, Sequences, FiniteSets

CONSTANTS
  Names,    \* names of configuration files
  Before,   \* what a file may hold when the service starts
  Data,     \* what applications and others write
  Changes   \* how often applications, storages and clients act (a bound)

ASSUME GhostSyncAssumption == Changes \in Nat

Storages == {"ext", "usb"}
None == "none"     \* no file; no storage
Short == "short"   \* a file whose copy ended early, or before it began

Content == Before \cup Data \cup {None, Short}
Contents == [Names -> Content]
Kinds == {"close", "delete"}   \* IN_CLOSE_WRITE, IN_DELETE

VARIABLES
  src,      \* the files of the phone
  dst,      \* the files in the ghost folder of each storage
  dir,      \* the storage has a ghost folder
  mounted,  \* the storage is mounted
  failing,  \* a storage is full or broken: system calls on files may fail
  path,     \* path_dst, by its storage
  wd_src,   \* src is watched
  wd_dst,   \* the storage ghost believes it watches, None for -1
  alive,    \* the kernel still has that watch
  queue,    \* unread inotify events
  batch,    \* events read and not yet handled
  drops,    \* how many events of each kind are in the drop list
  lock,     \* who holds data_lock
  phase,    \* how far its holder is in a re-mount
  restore,  \* the files it found in dst and not in src
  asked,    \* the storage of a :mount: that waits for data_lock, or None
  changes,  \* how many changes are left
  missed,   \* files whose change nobody watched or whose copy someone changed
  failed,   \* files whose last copy or deletion failed
  unlisted  \* events of dst, by kind, that came without a drop list entry

files == <<src, dst, dir, mounted>>
watches == <<wd_src, wd_dst, alive>>
events == <<queue, batch, drops>>
remount == <<phase, restore>>
history == <<missed, failed, unlisted>>
vars == <<files, failing, path, watches, events, lock, remount, asked, changes, history>>

Init ==
  /\ src \in [Names -> Before \cup {None}] /\ mounted \in [Storages -> BOOLEAN]
  /\ dir \in [Storages -> BOOLEAN]
  /\ dst \in {d \in [Storages -> [Names -> Before \cup {None}]] :
                \A s \in Storages, f \in Names : d[s][f] # None => dir[s] /\ s = "ext"}
  /\ failing = FALSE   \* Fail may come before the first step
  /\ path = IF mounted["usb"] THEN "usb" ELSE "ext"
  /\ wd_src = FALSE /\ wd_dst = None /\ alive = FALSE
  /\ queue = <<>> /\ batch = <<>> /\ drops = [k \in Kinds |-> 0]
  /\ lock = "monitor" /\ phase = "start" /\ restore = {} /\ asked = None
  /\ changes = Changes /\ missed = {} /\ failed = {} /\ unlisted = [k \in Kinds |-> 0]

\* An event equal to the last unread one is merged with it.
Event(of, kind, name) == [of |-> of, kind |-> kind, name |-> name]
Push(e) == IF queue # <<>> /\ queue[Len(queue)] = e THEN queue ELSE Append(queue, e)

Folder(s) == mounted[s] /\ dir[s]
-----------------------------------------------------------------------------
(***************************************************************************)
(* Watches.                                                                *)
(***************************************************************************)
\* Events of a watch that was removed match no watch descriptor any more.
Stale(events_) == [i \in 1 .. Len(events_) |-> [events_[i] EXCEPT !.of = "stale"]]

RemoveWatch ==
  /\ wd_src' = FALSE /\ wd_dst' = None /\ alive' = FALSE
  /\ queue' = Stale(queue) /\ batch' = Stale(batch)
  /\ unlisted' = [k \in Kinds |-> 0]

\* add_watch, once the directories are there. Only a new watch can fail.
AddWatch ==
  /\ wd_src' \in {TRUE} \cup {b \in {FALSE} : failing /\ ~wd_src}
  /\ wd_dst' \in (IF Folder(path) THEN {path} ELSE {None}) \cup {s \in {None} : failing}
  /\ alive' = (wd_dst' # None)
-----------------------------------------------------------------------------
(***************************************************************************)
(* copy_file and copy_dir: a file is copied whole; or short, when reading  *)
(* or writing fails; or not at all, when a file cannot be opened.          *)
(***************************************************************************)
Outcomes == {"whole"} \cup {o \in {"short", "none"} : failing}

Pasted(from, to, o) ==
  CASE o = "whole" /\ from # None -> from
    [] o = "short" /\ from # None -> Short
    [] o = "none" \/ from = None -> to

\* copy_dir stops at the first file that fails: the others are not copied.
CopyDir(from, to, o) == [f \in Names |-> Pasted(from[f], to[f], o[f])]
NotCopied(from, o) == {f \in Names : from[f] # None /\ o[f] # "whole"}

\* A folder is made, and every file of src copied to it.
NewFolder ==
  \E o \in [Names -> Outcomes] :
    /\ dir' = [dir EXCEPT ![path] = TRUE]
    /\ dst' = [dst EXCEPT ![path] = CopyDir(src, @, o)]
    /\ missed' = {} /\ failed' = NotCopied(src, o)
-----------------------------------------------------------------------------
(***************************************************************************)
(* A re-mount, by whoever holds the lock: the monitor when it starts, the  *)
(* service for a :mount:, the monitor again when the folder has gone.      *)
(***************************************************************************)
\* The monitor's first look.
MonitorStart ==
  /\ phase = "start" /\ lock = "monitor"
  /\ \/ mounted[path] /\ phase' = "look" /\ UNCHANGED lock
     \/ ~mounted[path] /\ phase' = "none" /\ lock' = "free"
  /\ UNCHANGED <<files, failing, path, watches, events, restore, asked, changes, history>>

Look ==
  /\ phase = "look"
  /\ IF Folder(path) THEN phase' = "sync" /\ restore' = {f \in Names : dst[path][f] # None /\ src[f] = None}
                     ELSE phase' = "watch" /\ UNCHANGED restore
  /\ missed' = IF Folder(path) THEN {} ELSE missed
  /\ UNCHANGED <<files, failing, path, watches, events, lock, asked, changes, failed, unlisted>>

\* sync_src_and_dst: what src did not have, whatever comes of it, then all
\* that src has.
Sync ==
  /\ phase = "sync"
  /\ \E r, o \in [Names -> Outcomes] :
       LET both == [f \in Names |-> IF f \in restore /\ Folder(path)
                                    THEN Pasted(dst[path][f], src[f], r[f]) ELSE src[f]]
       IN  /\ src' = both
           /\ dst' = IF Folder(path) THEN [dst EXCEPT ![path] = CopyDir(both, @, o)] ELSE dst
           /\ failed' = NotCopied(both, o) \cup {f \in restore : r[f] # "whole"}
  /\ phase' = "watch" /\ restore' = {}
  /\ UNCHANGED <<dir, mounted, failing, path, watches, events, lock, asked, changes, missed, unlisted>>

\* add_watch makes the folder first if there is none.
MakeFolder ==
  /\ phase = "watch" /\ mounted[path] /\ ~dir[path]
  /\ RemoveWatch /\ phase' = "made"
  /\ \/ NewFolder
     \/ failing /\ UNCHANGED <<dir, dst, missed, failed>>
  /\ UNCHANGED <<src, mounted, failing, path, drops, lock, restore, asked, changes>>

Watch ==
  /\ \/ phase = "made"
     \/ phase = "watch" /\ ~(mounted[path] /\ ~dir[path])
  /\ AddWatch /\ phase' = "none"
  /\ lock' = IF lock = "monitor" /\ batch # <<>> THEN "monitor" ELSE "free"
  /\ UNCHANGED <<files, failing, path, events, restore, asked, changes, history>>
-----------------------------------------------------------------------------
(***************************************************************************)
(* The monitor.                                                            *)
(***************************************************************************)
Read ==
  /\ phase # "start" /\ lock # "monitor"
  /\ batch = <<>> /\ queue # <<>>
  /\ batch' = queue /\ queue' = <<>>
  /\ UNCHANGED <<files, failing, path, watches, drops, lock, remount, asked, changes, history>>

\* An echo of ghost's own change, if the folder it changes is the one it watches.
Echo(kind, f) ==
  queue' = IF alive /\ wd_dst = path THEN Push(Event("dst", kind, f)) ELSE queue

DropAdd_Not(kind) == UNCHANGED drops
DropAdd(kind) == drops' = [drops EXCEPT ![kind] = @ + 1]

InDropList_Always(kind) == TRUE
InDropList(kind) == drops[kind] > 0

\* The unlisted events without e, and with one more if it was not merged.
Without(e) ==
  IF e.of = "dst" /\ ~InDropList(e.kind) /\ unlisted[e.kind] > 0
  THEN [unlisted EXCEPT ![e.kind] = @ - 1] ELSE unlisted
With(u, kind) == IF queue' = queue THEN u ELSE [u EXCEPT ![kind] = @ + 1]

Replace(f, v) == dst' = [dst EXCEPT ![path][f] = v]
NothingDone == UNCHANGED <<dst, queue, drops>>

\* A copy that was cut counts as done; one that is empty failed, but its file
\* was closed after writing all the same.
Cut_Fails(e) == UNCHANGED drops /\ unlisted' = Without(e)
Cut(e) == DropAdd("close") /\ unlisted' = Without(e)
Empty(e) == UNCHANGED drops /\ unlisted' = With(Without(e), "close")

\* copy_to_dst and what its caller does.
CopyToDst(e) ==
  LET f == e.name IN
  \/ /\ src[f] # None /\ Folder(path)
     /\ Replace(f, src[f]) /\ Echo("close", f) /\ DropAdd("close")
     /\ unlisted' = Without(e) /\ failed' = failed \ {f}
  \/ /\ src[f] # None /\ Folder(path) /\ failing
     /\ Replace(f, Short) /\ Echo("close", f)
     /\ Cut(e) \/ Empty(e)
     /\ failed' = failed \cup {f}
  \/ /\ ~(src[f] # None /\ Folder(path)) \/ failing
     /\ NothingDone
     /\ unlisted' = Without(e)
     /\ failed' = IF src[f] # None /\ Folder(path) THEN failed \cup {f} ELSE failed

DeleteFromDst(e) ==
  LET f == e.name IN
  /\ unlisted' = Without(e)
  /\ \/ /\ Folder(path) /\ dst[path][f] # None
        /\ Replace(f, None) /\ Echo("delete", f) /\ DropAdd("delete")
        /\ failed' = failed \ {f}
     \/ /\ Folder(path) /\ dst[path][f] # None /\ failing
        /\ NothingDone /\ failed' = failed \cup {f}
     \/ /\ ~(Folder(path) /\ dst[path][f] # None)
        /\ NothingDone /\ UNCHANGED failed

OfSrc_Drops(e) ==
  IF InDropList(e.kind)
  THEN drops' = [drops EXCEPT ![e.kind] = @ - 1] /\ UNCHANGED <<dst, queue, failed, unlisted>>
  ELSE IF e.kind = "delete" THEN DeleteFromDst(e) ELSE CopyToDst(e)

OfSrc(e) ==
  \/ wd_dst = None /\ NothingDone /\ UNCHANGED <<failed, unlisted>>
  \/ wd_dst # None /\ e.kind = "delete" /\ DeleteFromDst(e)
  \/ wd_dst # None /\ e.kind = "close" /\ CopyToDst(e)

\* A change of dst by someone else is undone.
OfDst(e) ==
  \/ /\ InDropList(e.kind)
     /\ drops' = [drops EXCEPT ![e.kind] = @ - 1]
     /\ UNCHANGED <<dst, queue, failed, unlisted>>
  \/ /\ ~InDropList(e.kind)
     /\ IF e.kind = "close" /\ src[e.name] = None THEN DeleteFromDst(e) ELSE CopyToDst(e)

\* One event of a batch; the lock is held until the last.
Handle ==
  /\ batch # <<>> /\ phase = "none" /\ lock \in {"free", "monitor"}
  /\ Head(batch).kind # "ignored"
  /\ \/ Head(batch).of = "src" /\ OfSrc(Head(batch))
     \/ Head(batch).of = "dst" /\ OfDst(Head(batch))
     \/ Head(batch).of = "stale" /\ NothingDone /\ UNCHANGED <<failed, unlisted>>
  /\ batch' = Tail(batch)
  /\ lock' = IF Tail(batch) = <<>> THEN "free" ELSE "monitor"
  /\ UNCHANGED <<src, dir, mounted, failing, path, watches, remount, asked, changes, missed>>

\* IN_IGNORED: the watch of dst is gone. If only the folder is, it is made again.
HandleIgnored ==
  /\ batch # <<>> /\ phase = "none" /\ lock \in {"free", "monitor"}
  /\ Head(batch).kind = "ignored"
  /\ batch' = Tail(batch)
  /\ wd_dst' = IF Head(batch).of = "dst" THEN None ELSE wd_dst
  /\ LET again == Head(batch).of = "dst" /\ mounted[path] /\ ~dir[path]
     IN  \/ again /\ NewFolder /\ phase' = "watch" /\ lock' = "monitor"
         \/ /\ ~again \/ failing
            /\ UNCHANGED <<dir, dst, phase, missed, failed>>
            /\ lock' = IF Tail(batch) = <<>> THEN "free" ELSE "monitor"
  /\ UNCHANGED <<src, mounted, failing, path, wd_src, alive, queue, drops, restore, asked, changes,
                 unlisted>>
-----------------------------------------------------------------------------
(***************************************************************************)
(* The service thread.                                                     *)
(***************************************************************************)
Act == changes > 0 /\ changes' = changes - 1

\* Each connection looks for the storage again, without the lock: path_dst may
\* change under the watches.
Connect ==
  /\ Act /\ lock # "server" /\ asked = None
  /\ path' = IF mounted["usb"] THEN "usb" ELSE "ext"
  /\ missed' = IF path' # path THEN Names ELSE missed
  /\ UNCHANGED <<files, failing, watches, events, lock, remount, asked, failed, unlisted>>

\* The storage that :mount: selects: usb if it is mounted.
Selected(s, mount) ==
  IF s = "usb"
  THEN IF mount THEN "usb" ELSE IF mounted["ext"] THEN "ext" ELSE None
  ELSE IF mounted["usb"] THEN "usb" ELSE IF mount THEN "ext" ELSE None

\* A :mount: looks at the watch before it asks for the lock.
AskMount ==
  /\ Act /\ lock # "server" /\ asked = None
  /\ \E s \in Storages, mount \in BOOLEAN :
       LET to == Selected(s, mount)
       IN  /\ to # None /\ (wd_dst = None \/ to # path)
           /\ asked' = to
  /\ UNCHANGED <<files, failing, path, watches, events, lock, remount, history>>

Mount ==
  /\ asked # None /\ lock = "free"
  /\ RemoveWatch /\ path' = asked /\ asked' = None
  /\ lock' = "server" /\ phase' = "look"
  /\ missed' = Names
  /\ UNCHANGED <<files, failing, drops, restore, changes, failed>>
-----------------------------------------------------------------------------
(***************************************************************************)
(* Applications and storages.                                              *)
(***************************************************************************)
\* A change of src that nobody watches is missed.
AppChange ==
  /\ Act
  /\ \E f \in Names, v \in Data \cup {None} :
       /\ v = None => src[f] # None
       /\ src' = [src EXCEPT ![f] = v]
       /\ queue' = IF wd_src THEN Push(Event("src", IF v = None THEN "delete" ELSE "close", f))
                             ELSE queue
       /\ missed' = IF wd_src THEN missed ELSE missed \cup {f}
  /\ UNCHANGED <<dst, dir, mounted, failing, path, watches, batch, drops, lock, remount, asked,
                 failed, unlisted>>

Tamper ==
  /\ Act
  /\ \E s \in Storages, f \in Names, v \in Data \cup {None} :
       /\ Folder(s) /\ (v = None => dst[s][f] # None)
       /\ dst' = [dst EXCEPT ![s][f] = v]
       /\ LET kind == IF v = None THEN "delete" ELSE "close"
          IN  /\ queue' = IF alive /\ wd_dst = s THEN Push(Event("dst", kind, f)) ELSE queue
              /\ unlisted' = With(unlisted, kind)
       /\ missed' = missed \cup {f}
  /\ UNCHANGED <<src, dir, mounted, failing, path, watches, batch, drops, lock, remount, asked, failed>>

\* An empty folder is removed, and its watch with it.
Lost(s) ==
  IF alive /\ wd_dst = s THEN alive' = FALSE /\ queue' = Push(Event("dst", "ignored", None))
                         ELSE UNCHANGED <<alive, queue>>

RemoveFolder ==
  /\ Act
  /\ \E s \in Storages :
       /\ Folder(s) /\ \A f \in Names : dst[s][f] = None
       /\ dir' = [dir EXCEPT ![s] = FALSE]
       /\ Lost(s)
  /\ missed' = Names
  /\ UNCHANGED <<src, dst, mounted, failing, path, wd_src, wd_dst, batch, drops, lock, remount, asked,
                 failed, unlisted>>

Plug ==
  /\ Act
  /\ \E s \in Storages :
       /\ mounted' = [mounted EXCEPT ![s] = ~@]
       /\ IF mounted[s] THEN Lost(s) ELSE UNCHANGED <<alive, queue>>
  /\ missed' = IF phase = "none" THEN missed ELSE Names
  /\ UNCHANGED <<src, dst, dir, failing, path, wd_src, wd_dst, batch, drops, lock, remount, asked,
                 failed, unlisted>>

\* A storage becomes full or broken, or is so no longer.
Fail ==
  /\ Act /\ failing' = ~failing
  /\ UNCHANGED <<files, path, watches, events, lock, remount, asked, history>>
-----------------------------------------------------------------------------
Ghost ==
  \/ MonitorStart \/ Look \/ Sync \/ MakeFolder \/ Watch \/ Read \/ Handle \/ HandleIgnored
  \/ Mount

Next ==
  \/ Ghost \/ Connect \/ AskMount
  \/ AppChange \/ Tamper \/ RemoveFolder \/ Plug \/ Fail

\* Ghost's threads run; nobody else has to do anything.
Spec == Init /\ [][Next]_vars /\ WF_vars(Ghost)
-----------------------------------------------------------------------------
(***************************************************************************)
(* Properties.                                                             *)
(***************************************************************************)
TypeOK ==
  /\ src \in Contents /\ dst \in [Storages -> Contents]
  /\ dir \in [Storages -> BOOLEAN] /\ mounted \in [Storages -> BOOLEAN] /\ failing \in BOOLEAN
  /\ path \in Storages /\ wd_src \in BOOLEAN /\ wd_dst \in Storages \cup {None}
  /\ alive \in BOOLEAN /\ drops \in [Kinds -> Nat] /\ unlisted \in [Kinds -> Nat]
  /\ lock \in {"free", "monitor", "server"} /\ asked \in Storages \cup {None}
  /\ phase \in {"start", "look", "sync", "watch", "made", "none"} /\ restore \subseteq Names
  /\ changes \in 0 .. Changes /\ missed \subseteq Names /\ failed \subseteq Names

Settled == queue = <<>> /\ batch = <<>> /\ lock = "free" /\ phase = "none"

\* Once every event is handled, dst holds what src holds: whatever the order of
\* changes, merged events, echoes, unplugged storages and re-mounts. Only files
\* may differ that changed while nobody watched, that others changed in dst, or
\* whose last copy or deletion failed: that ghost may take for done.
InSync ==
  (Settled /\ wd_dst = path /\ mounted[path]) =>
    \A f \in Names \ (missed \cup failed) : dst[path][f] = src[f]

\* No more events of dst are on their way than the drop list ignores and came
\* without an entry: changes by others, and copies that failed before the first
\* block. So ghost takes no copy that it counts as done, whole or short, for a
\* change to undo. The other way round it does not hold, because merged and
\* stale events leave entries behind, and each of them hides a change of
\* someone else.
Pending(k) ==
  LET Of(q) == Cardinality({i \in 1 .. Len(q) : q[i].of = "dst" /\ q[i].kind = k})
  IN  Of(batch) + Of(queue)
EchoesDropped == \A k \in Kinds : Pending(k) <= drops[k] + unlisted[k]

\* When the others are quiet and files can be copied again, ghost becomes quiet:
\* it does not take its own copies for changes that it has to undo, over and
\* over. While the storage stays full it may do just that, as each copy that
\* fails before its first block comes back as an event.
Settles == <>[]~failing => <>[]Settled
=============================================================================
