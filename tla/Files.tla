--------------------------------- MODULE Files ---------------------------------
(***************************************************************************)
(* Processes and their files: the system calls of lib/syscall/sys_fd.cpp   *)
(* on the tree of Vfs, fork() with its shared descriptors and the closing  *)
(* of all files when a process is terminated (lib/process/process.cpp).    *)
(*                                                                         *)
(* A system call runs with interrupts off until it blocks, and none of     *)
(* these blocks, so each is one step.  In fault the model keeps the call   *)
(* in which the kernel followed a bad pointer; nothing happens after it.   *)
(*                                                                         *)
(* Reading and writing the terminal is in Tty.  No system call creates a   *)
(* regular file: create() is called by the kernel's own tests only.  They  *)
(* read and write such a file with a buffer of the kernel; the code copies *)
(* bytes without stac() and CR4.SMAP is set, so with a process's buffer it *)
(* faults, except in readv(), which has set the AC flag.  (User code runs  *)
(* with AC clear: see Trap.)  The tests' files are here in /tmp, where     *)
(* processes find them.                                                    *)
(***************************************************************************)
EXTENDS Vfs, FiniteSets, FiniteSetsExt

CONSTANTS Pids,          \* the first is the process the kernel starts
          Scenarios,     \* what happens: see MCFiles
          INT_RANGE,     \* 2^32: the number of values of an int
          MaxInodes, MaxSize   \* bounds

ASSUME FilesAssumption ==
    /\ Pids \subseteq Nat \ {0} /\ INT_RANGE \in Nat \ {0}
    /\ MaxInodes \in Nat /\ MaxSize \in Nat

VARIABLES sc,        \* the scenario: the archive, the calls made
          v,         \* the tree
          descs,     \* the FileDescriptor objects: never freed
          procs,     \* fd_table and cwd_inode of every live process
          bytes,     \* history: what was last written at each offset of a file
          result,    \* what the last call returned, and the bytes it read
          fault      \* the call the kernel did not return from

vars == <<sc, v, descs, procs, bytes, result, fault>>

ENOENT == 2
EBADF == 9
ENOTDIR == 20
EISDIR == 21
EINVAL == 22

Tty1 == Path(TRUE, <<"dev", "tty1">>)

\* open() of fs.cpp.  seen and mixed are history: the entries getdents64 has
\* handed out of the directory, and whether it also read another one.  kernel:
\* a descriptor of the kernel's own, in no process's table.
NewDesc(inode, path) ==
    [inode |-> inode, path |-> path, offset |-> 0, kernel |-> FALSE,
     seen |-> <<>>, mixed |-> FALSE]

\* Descriptor fd is at index fd + 1 of fd_table.  stale and closed are history:
\* the descriptors with a relative path that the process (or the one it was
\* forked from) had open when it changed directory, and whether it closed one.
NewProc(fds, cwd) == [fd_table |-> fds, cwd_inode |-> cwd, stale |-> {}, closed |-> FALSE]

Init ==
    /\ sc \in Scenarios
    /\ v = init(InitramfsMountPoint(sc.archive, sc.garbage))
    /\ descs = [i \in 1..3 |-> NewDesc(resolve_path(v, Null, Tty1), Tty1)]
    /\ procs = [p \in {Min(Pids)} |-> NewProc(<<1, 2, 3>>, Null)]
    /\ bytes = <<>>
    /\ result = [call |-> "none", val |-> 0, d |-> Null, got |-> <<>>]
    /\ fault = "none"

Running(call) == fault = "none" /\ call \in sc.calls
Returns(call, val) == result' = [call |-> call, val |-> val, d |-> Null, got |-> <<>>]
Faults(call) == fault' = call /\ UNCHANGED <<sc, v, descs, procs, bytes, result>>

\* Every call that takes a descriptor starts with get_fd().
get_fd(p, fd) == IF fd \in DOMAIN procs[p].fd_table THEN procs[p].fd_table[fd] ELSE Null

-----------------------------------------------------------------------------
(* Opening and closing.                                                    *)

\* alloc_fd() looks into every descriptor of the table for one without an
\* inode, so a slot that close() made null is a null pointer followed.  There
\* is never a descriptor without an inode: the new one always goes last.
alloc_fd(p) == IF Null \in Range(procs[p].fd_table) THEN Fault
               ELSE Len(procs[p].fd_table) + 1

sys_open(p, path) ==
    /\ Running("open") /\ Len(descs) < 3 + sc.opens
    /\ LET inode == resolve_path(v, procs[p].cwd_inode, path)
           fd == alloc_fd(p)
       IN  CASE inode = Fault \/ (inode # Null /\ fd = Fault) -> Faults("open")
             [] inode = Null ->
                    Returns("open", -ENOENT) /\ UNCHANGED <<sc, v, descs, procs, bytes, fault>>
             [] OTHER ->
                    /\ descs' = Append(descs, NewDesc(inode, path))
                    /\ procs' = [procs EXCEPT ![p].fd_table = Append(@, Len(descs) + 1)]
                    /\ Returns("open", fd)
                    /\ UNCHANGED <<sc, v, bytes, fault>>

\* The inode's close() does nothing for any of the file systems.
sys_close(p, fd) ==
    /\ Running("close")
    /\ get_fd(p, fd) # Null
    /\ procs' = [procs EXCEPT ![p].fd_table[fd] = Null, ![p].closed = TRUE]
    /\ Returns("close", 0)
    /\ UNCHANGED <<sc, v, descs, bytes, fault>>

Bug_empty_slots(p) == [procs[p] EXCEPT !.fd_table = [i \in DOMAIN @ |-> Null]]

\* fork(): the child has the parent's table of pointers and its directory.
CopyProc(p) == procs[p]

fork(p, q) ==
    /\ Running("fork")
    /\ q \notin DOMAIN procs
    /\ procs' = [r \in DOMAIN procs \cup {q} |-> IF r = q THEN CopyProc(p) ELSE procs[r]]
    /\ Returns("fork", q)
    /\ UNCHANGED <<sc, v, descs, bytes, fault>>

\* terminate(): closes every descriptor of the table, null ones included.
terminate(p) ==
    /\ Running("exit") /\ Cardinality(DOMAIN procs) > 1
    /\ IF Null \in Range(procs[p].fd_table) THEN Faults("exit")
       ELSE /\ procs' = [r \in DOMAIN procs \ {p} |-> procs[r]]
            /\ Returns("exit", 0)
            /\ UNCHANGED <<sc, v, descs, bytes, fault>>

-----------------------------------------------------------------------------
(* Reading and writing.  An operation of an inode works on                 *)
(*   [v, d, val, got, open]: the tree, the descriptor, the result, the     *)
(* bytes read from a file of tmpfs and whether SMAP lets it at the buffer. *)

Io(d, open) == [v |-> v, d |-> descs[d], val |-> 0, got |-> <<>>, open |-> open]
Node(s) == s.v.ino[s.d.inode]
SelfLength == 3      \* what /proc/self says: longer than some reads ask for

DirectoryIo(s) == [s EXCEPT !.val = -EISDIR]

\* No stac() around the copy.
TmpRead(s, count) ==
    LET available == Len(Node(s).data) - s.d.offset
        to_read == IF available < 0 THEN 0 ELSE Min({count, available})
    IN  IF to_read > 0 /\ ~s.open THEN [s EXCEPT !.val = Fault]
        ELSE [s EXCEPT !.val = to_read, !.d.offset = @ + to_read,
                       !.got = @ \o SubSeq(Node(s).data, s.d.offset + 1, s.d.offset + to_read)]

\* Neither the offset nor the size of the file matters.
InitramfsRead(s, count) == [s EXCEPT !.val = count]
NullRead(s) == [s EXCEPT !.val = 0]
\* The length of the text, also when less was asked for.
SelfRead(s) == [s EXCEPT !.val = SelfLength]

inode_read(s, count) ==
    LET n == Node(s)
    IN  CASE n.type = "DIRECTORY"  -> DirectoryIo(s)
          [] n.fs = "devfs"        -> NullRead(s)
          [] n.fs = "procfs"       -> SelfRead(s)
          [] n.fs = "initramfs"    -> InitramfsRead(s, count)
          [] n.fs = "tmpfs"        -> TmpRead(s, count)

Bug_at_end(data, offset, count, b) == data \o [i \in 1..count |-> b]

\* The file with count bytes b at offset: resize() never shrinks it and fills
\* what lies between its end and the offset with zeros.
WriteAt(data, offset, count, b) ==
    [i \in 1..Max({Len(data), offset + count}) |->
        IF i \in offset + 1..offset + count THEN b
        ELSE IF i <= Len(data) THEN data[i] ELSE 0]

TmpWrite(s, count, b) ==
    IF count > 0 /\ ~s.open THEN [s EXCEPT !.val = Fault]
    ELSE [s EXCEPT !.val = count, !.d.offset = @ + count,
                   !.v.ino[s.d.inode].data = WriteAt(@, s.d.offset, count, b)]
NullWrite(s, count) == [s EXCEPT !.val = count]
SelfWrite(s) == [s EXCEPT !.val = -EROFS]
InitramfsWrite(s) == [s EXCEPT !.val = 0]

inode_write(s, count, b) ==
    LET n == Node(s)
    IN  CASE n.type = "DIRECTORY"  -> DirectoryIo(s)
          [] n.fs = "devfs"        -> NullWrite(s, count)
          [] n.fs = "procfs"       -> SelfWrite(s)
          [] n.fs = "initramfs"    -> InitramfsWrite(s)
          [] n.fs = "tmpfs"        -> TmpWrite(s, count, b)

\* readv() and writev(): one operation for every vector that is not empty, up
\* to the first that fails.
Vectored(s, lens, operation(_, _)) ==
    LET step(t, len) ==
            IF t.failed \/ len = 0 THEN t
            ELSE LET u == operation(t.s, len)
                 IN  IF u.val < 0
                     THEN [t EXCEPT !.failed = TRUE,
                                    !.total = IF @ > 0 /\ u.val # Fault THEN @ ELSE u.val]
                     ELSE [t EXCEPT !.s = u, !.total = @ + u.val]
        end == FoldLeft(step, [s |-> s, total |-> 0, failed |-> FALSE], lens)
    IN  [end.s EXCEPT !.val = end.total]

\* What the file system code does in this module: everything but the terminal.
IsFile(d) == ~(v.ino[descs[d].inode].fs = "devfs" /\ descs[d].path = Tty1)

\* The history of a file changes as POSIX has it: the count bytes b at the
\* descriptor's offset, and nothing else.
Wrote(d, count, b) ==
    LET end == descs[d].offset + count
    IN  IF descs[d].inode \notin DOMAIN bytes THEN bytes
        ELSE [bytes EXCEPT ![descs[d].inode] =
                 [size |-> Max({@.size, end}),
                  at |-> [i \in 1..MaxSize |-> IF i \in descs[d].offset + 1..end THEN b ELSE @.at[i]]]]

Commit(d, call, s, history) ==
    IF s.val = Fault THEN Faults(call)
    ELSE /\ v' = s.v
         /\ descs' = [descs EXCEPT ![d] = s.d]
         /\ result' = [call |-> call, val |-> s.val, d |-> d, got |-> s.got]
         /\ bytes' = history
         /\ UNCHANGED <<sc, procs, fault>>

sys_read(p, fd, count) ==
    LET d == get_fd(p, fd)
    IN  /\ Running("read") /\ d # Null /\ IsFile(d)
        /\ Commit(d, "read", inode_read(Io(d, FALSE), count), bytes)

\* stac() before the loop.
sys_readv(p, fd, lens) ==
    LET d == get_fd(p, fd)
    IN  /\ Running("readv") /\ d # Null /\ IsFile(d)
        /\ Commit(d, "read", Vectored(Io(d, TRUE), lens, inode_read), bytes)

Fits(d, count) == descs[d].offset + count <= MaxSize

\* A process writes its own pid.  Writing nothing past the end of a file still
\* makes it reach there.
sys_write(p, fd, count) ==
    LET d == get_fd(p, fd)
    IN  /\ Running("write") /\ d # Null /\ IsFile(d) /\ Fits(d, count)
        /\ Commit(d, "write", inode_write(Io(d, FALSE), count, p), Wrote(d, count, p))

\* Copies every vector from the process, but not what it points to.
sys_writev(p, fd, lens) ==
    LET d == get_fd(p, fd)
        count == FoldLeft(+, 0, lens)
        one(s, len) == inode_write(s, len, p)
    IN  /\ Running("writev") /\ d # Null /\ IsFile(d) /\ Fits(d, count)
        /\ Commit(d, "write", Vectored(Io(d, FALSE), lens, one),
                  IF count = 0 THEN bytes ELSE Wrote(d, count, p))

\* sys_lseek() passes its 64-bit offset on as an int.
ToInt(x) == ((x + INT_RANGE \div 2) % INT_RANGE) - (INT_RANGE \div 2)

\* lseek() of the inode: only tmpfs files have a position.
inode_lseek(s, offset, whence) ==
    LET n == Node(s)
        base == CASE whence = "SEEK_SET" -> 0
                  [] whence = "SEEK_CUR" -> s.d.offset
                  [] whence = "SEEK_END" -> Len(n.data)
    IN  CASE n.type = "DIRECTORY"                -> DirectoryIo(s)
          [] n.fs # "tmpfs"                      -> s
          [] whence = "SEEK_DATA"                -> [s EXCEPT !.val = -EINVAL]
          [] base + offset < 0                   -> [s EXCEPT !.val = -EINVAL]
          [] OTHER                               -> [s EXCEPT !.d.offset = base + offset]

sys_lseek(p, fd, offset, whence) ==
    LET d == get_fd(p, fd)
        s == inode_lseek(Io(d, FALSE), ToInt(offset), whence)
    IN  /\ Running("lseek") /\ d # Null /\ IsFile(d) /\ s.d.offset <= MaxSize
        /\ Commit(d, "lseek", s, bytes)

\* What the kernel does with a file of its own, by its inode and with its own
\* buffers.
KernelIo(d) ==
    /\ Running("kernel") /\ descs[d].kernel
    /\ \/ \E count \in sc.counts : Commit(d, "read", inode_read(Io(d, TRUE), count), bytes)
       \/ \E count \in sc.counts, b \in Pids :
              /\ Fits(d, count)
              /\ Commit(d, "write", inode_write(Io(d, TRUE), count, b), Wrote(d, count, b))
       \/ \E seek \in sc.seeks :
              LET s == inode_lseek(Io(d, TRUE), ToInt(seek[1]), seek[2])
              IN  s.d.offset <= MaxSize /\ Commit(d, "lseek", s, bytes)

-----------------------------------------------------------------------------
(* Directories.                                                            *)

Bug_from_start(entries, offset, max_entries) ==
    SubSeq(entries, 1, Min({max_entries, Len(entries)}))

NextEntries(entries, offset, max_entries) ==
    SubSeq(entries, offset + 1, Min({offset + max_entries, Len(entries)}))

\* getdents64 looks the path of the descriptor up again, from the directory
\* the caller is in now.
sys_getdents64(p, fd, max_entries) ==
    /\ Running("getdents") /\ get_fd(p, fd) # Null
    /\ LET d == descs[get_fd(p, fd)]
           inode == resolve_path(v, procs[p].cwd_inode, d.path)
           dirents == NextEntries(readdir(v, procs[p].cwd_inode, d.path), d.offset, max_entries)
       IN  IF inode = Fault THEN Faults("getdents")
           ELSE /\ descs' = [descs EXCEPT ![get_fd(p, fd)] =
                                [@ EXCEPT !.offset = @ + Len(dirents),
                                          !.seen = @ \o dirents,
                                          !.mixed = @ \/ get_fd(p, fd) \in procs[p].stale]]
                /\ Returns("getdents", Len(dirents))
                /\ UNCHANGED <<sc, v, procs, bytes, fault>>

Enter(p, inode, call) ==
    /\ procs' = [procs EXCEPT ![p].cwd_inode = inode,
                              ![p].stale = @ \cup {d \in Range(procs[p].fd_table) \ {Null} : ~descs[d].path.abs}]
    /\ Returns(call, 0)
    /\ UNCHANGED <<sc, v, descs, bytes, fault>>

IsDirectory(inode) == v.ino[inode].type = "DIRECTORY"

Refuse(call, error) == Returns(call, error) /\ UNCHANGED <<sc, v, descs, procs, bytes, fault>>

\* sys_chdir() opens the path; the descriptor it gets for it is never freed.
sys_chdir(p, path) ==
    /\ Running("chdir")
    /\ LET inode == resolve_path(v, procs[p].cwd_inode, path)
       IN  CASE inode = Fault           -> Faults("chdir")
             [] inode = Null            -> Refuse("chdir", -EBADF)
             [] ~IsDirectory(inode)     -> Refuse("chdir", -ENOTDIR)
             [] OTHER                   -> Enter(p, inode, "chdir")

sys_fchdir(p, fd) ==
    /\ Running("fchdir") /\ get_fd(p, fd) # Null
    /\ LET inode == descs[get_fd(p, fd)].inode
       IN  IF IsDirectory(inode) THEN Enter(p, inode, "fchdir") ELSE Refuse("fchdir", -ENOTDIR)

sys_mkdir(p, path) ==
    /\ Running("mkdir") /\ Len(v.ino) < MaxInodes
    /\ LET made == mkdir(v, procs[p].cwd_inode, path)
       IN  IF made.res = Fault THEN Faults("mkdir")
           ELSE /\ v' = made.v
                /\ Returns("mkdir", made.res)
                /\ UNCHANGED <<sc, descs, procs, bytes, fault>>

\* TmpDirectoryInode::create(), on the root of /tmp, by a kernel test that makes
\* itself a descriptor of the new file.
create(name) ==
    /\ Running("create") /\ Len(v.ino) < MaxInodes
    /\ LET dir == resolve_path(v, Null, Path(TRUE, <<"tmp">>))
           made == TmpAdd(v, dir, name, "REGULAR")
           inode == Len(v.ino) + 1
           fd == [NewDesc(inode, Path(TRUE, <<"tmp", name>>)) EXCEPT !.kernel = TRUE]
       IN  /\ v' = made.v
           /\ IF made.res # 0 THEN UNCHANGED <<bytes, descs>>
              ELSE /\ bytes' = bytes @@ (inode :> [size |-> 0, at |-> [i \in 1..MaxSize |-> 0]])
                   /\ descs' = Append(descs, fd)
           /\ Returns("create", made.res)
           /\ UNCHANGED <<sc, procs, fault>>

\* Any call on a descriptor that is not there.
NoSuchFd(p, fd) ==
    /\ Running("badfd") /\ get_fd(p, fd) = Null
    /\ Refuse("badfd", -EBADF)

Next ==
    \/ \E p \in DOMAIN procs, path \in sc.paths : sys_open(p, path) \/ sys_chdir(p, path)
    \/ \E p \in DOMAIN procs, path \in sc.dirs : sys_mkdir(p, path)
    \/ \E p \in DOMAIN procs, q \in Pids : fork(p, q)
    \/ \E p \in DOMAIN procs : terminate(p)
    \/ \E name \in sc.names : create(name)
    \/ \E d \in 1..Len(descs) : KernelIo(d)
    \/ \E p \in DOMAIN procs : \E fd \in 1..Len(procs[p].fd_table) + 1 :
           \/ sys_close(p, fd) \/ sys_fchdir(p, fd) \/ NoSuchFd(p, fd)
           \/ \E count \in sc.counts :
                  sys_read(p, fd, count) \/ sys_write(p, fd, count) \/ sys_getdents64(p, fd, count)
           \/ \E lens \in sc.lens : sys_readv(p, fd, lens) \/ sys_writev(p, fd, lens)
           \/ \E seek \in sc.seeks : sys_lseek(p, fd, seek[1], seek[2])

Spec == Init /\ [][Next]_vars

-----------------------------------------------------------------------------
(* Properties.                                                             *)

Inodes == 1..Len(v.ino)
Descs == 1..Len(descs)

TypeOK ==
    /\ \A i \in Inodes : /\ v.ino[i].parent \in Inodes \cup {Null}
                         /\ v.ino[i].mp \in 1..Len(v.mounts)
                         /\ \A k \in DOMAIN v.ino[i].entries : v.ino[i].entries[k].id \in Inodes
    /\ \A d \in Descs : descs[d].inode \in Inodes /\ descs[d].offset \in Nat
    /\ \A p \in DOMAIN procs : /\ procs[p].cwd_inode \in Inodes \cup {Null}
                              /\ Range(procs[p].fd_table) \subseteq Descs \cup {Null}

\* The directory that a path names, as one reads it: ".." takes the last name
\* of what comes before it away.
Canonical(from, path) ==
    LET step(names, token) == CASE token = "."  -> names
                                [] token = ".." -> IF names = <<>> THEN names ELSE Front(names)
                                [] OTHER        -> Append(names, token)
    IN  FoldLeft(step, IF path.abs THEN <<>> ELSE from, path.toks)

\* resolve_path() and getcwd() agree: walking a path from the current directory
\* ends, when it ends in a directory, in the one whose getcwd() is the path
\* read as text, "." and ".." taken out, also across the mount points.
PathsCanonical ==
    \A p \in DOMAIN procs, path \in sc.paths :
        LET cwd == procs[p].cwd_inode
            inode == resolve_path(v, cwd, path)
        IN  inode \notin {Null, Fault} /\ v.ino[inode].type = "DIRECTORY"
                => getcwd(v, inode) = Canonical(getcwd(v, cwd), path)

\* The path that getcwd() reports to a process leads back to the directory the
\* process is in.
CwdLeadsBack ==
    \A p \in DOMAIN procs :
        LET cwd == procs[p].cwd_inode
        IN  cwd # Null => resolve_path(v, Null, Path(TRUE, getcwd(v, cwd))) = cwd

\* Going down by resolve_path() and going up by getcwd() are inverse to each other
\* in every directory a process has got to.
PathsAgree == TypeOK /\ PathsCanonical /\ CwdLeadsBack

\* Every entry that readdir() lists is listed once and leads back to its
\* directory: lookup finds the inode it stands for, or what is mounted on it,
\* and ".." from there returns; the type listed is that of the inode, except
\* for /proc/self.  (mkdir() lets a directory be called "." or "..": such a one
\* is listed and no path reaches it.)
ListedOnce ==
    \A dir \in Inodes : \A k, l \in DOMAIN v.ino[dir].entries :
        LET e == v.ino[dir].entries[k]
            inode == Down(v, dir, e.name)
        IN  /\ e.name = v.ino[dir].entries[l].name => k = l
            /\ e.name \notin {".", ".."} /\ v.ino[inode].type = "DIRECTORY" => DotDot(v, inode) = dir
            /\ e.type = v.ino[inode].type \/ v.ino[dir].fs = "procfs"

\* getdents64 lists the directory that was opened: the path kept in a
\* descriptor still names its inode, in every process that shares it, unless
\* the path is relative and the process has changed directory since.
PathStillNames ==
    \A p \in DOMAIN procs : \A d \in Range(procs[p].fd_table) \ (procs[p].stale \cup {Null}) :
        resolve_path(v, procs[p].cwd_inode, descs[d].path) = descs[d].inode

\* What getdents64 has handed out on one descriptor, to all processes that
\* share it and over all calls, is a prefix of the directory: every entry once,
\* in order, those made meanwhile included.
EntriesOnce ==
    \A d \in Descs :
        ~descs[d].mixed /\ descs[d].seen # <<>>
            => descs[d].seen = SubSeq(v.ino[descs[d].inode].entries, 1, descs[d].offset)

\* What is listed is what is there: names are unique and lead to their inodes, a
\* descriptor's path to its directory, and getdents64 gives each entry once.
ListingsAgree == ListedOnce /\ PathStillNames /\ EntriesOnce

\* A file of tmpfs holds at every offset what was last written there through
\* any descriptor, zeros where nothing was, and ends where the writes ended; and
\* what a read or a readv() over several buffers gave is what was written just
\* before the position it left the descriptor at.
FileHoldsWrites ==
    /\ \A i \in DOMAIN bytes : v.ino[i].data = SubSeq(bytes[i].at, 1, bytes[i].size)
    /\ result.got # <<>> =>
           LET d == descs[result.d]
           IN  /\ result.val = Len(result.got) /\ d.offset <= bytes[d.inode].size
               /\ result.got = SubSeq(bytes[d.inode].at, d.offset - result.val + 1, d.offset)

\* Opening a file and leaving a process follow no bad pointer as long as no
\* process has closed a file, if the mount point of the root file system has a
\* null mounted_on: alloc_fd() and terminate() follow the null pointers that
\* close() leaves in a table.
FaultsOnlyAfterClose ==
    fault \in {"open", "exit"} /\ sc.garbage = Null => \E p \in DOMAIN procs : procs[p].closed
=============================================================================
