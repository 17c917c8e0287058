---------------------------------- MODULE Vfs ----------------------------------
(***************************************************************************)
(* The file tree (lib/fs): the inodes of the four file systems, the mount  *)
(* table and the path operations of fs.cpp, as operators on a record       *)
(*   [ino    |-> the inodes, numbered in the order they are made,          *)
(*    mounts |-> the mount points, the first being g_root_mountpoint].     *)
(*                                                                         *)
(* A path is [abs, toks]: whether it starts with '/', and what             *)
(* algo::split() leaves of it.  A directory entry carries the name and the *)
(* type that lookup() and readdir() go by, which for /dev and /proc are    *)
(* not those of the inode behind it.                                       *)
(***************************************************************************)
EXTENDS Integers, Sequences, SequencesExt

Null == 0        \* nullptr
Wild == -1       \* a pointer never assigned: its value is not a null pointer
Fault == -1000   \* instead of an inode or a result: the kernel follows a bad pointer

Path(abs, toks) == [abs |-> abs, toks |-> toks]

Inode(mp, fs, parent, name, type) ==
    [mp |-> mp, fs |-> fs, parent |-> parent, name |-> name, type |-> type,
     entries |-> <<>>, data |-> <<>>]

\* The inode number n made next, and an entry for it in directory dir.
AddInode(v, node) == [v EXCEPT !.ino = Append(@, node)]
AddEntry(v, dir, name, type, id) ==
    [v EXCEPT !.ino[dir].entries = Append(@, [name |-> name, type |-> type, id |-> id])]
AddChild(v, dir, name, type) ==
    LET n == v.ino[dir]
    IN  AddEntry(AddInode(v, Inode(n.mp, n.fs, dir, name, type)),
                 dir, name, type, Len(v.ino) + 1)

\* lookup(): the first entry of that name; an inode that is not a directory
\* has none.
lookup(v, dir, name) ==
    LET e == v.ino[dir].entries
        hits == {i \in DOMAIN e : e[i].name = name}
    IN  IF hits = {} THEN Null ELSE e[CHOOSE i \in hits : \A j \in hits : i <= j].id

find_mount_at(v, inode) == {m \in DOMAIN v.mounts : v.mounts[m].mounted_on = inode}

\* "..", from the inode cur: out of the mounted file system at its root.
DotDot(v, cur) ==
    LET m == v.mounts[v.ino[cur].mp]
        up == v.ino[cur].parent
    IN  IF cur = m.root_inode /\ m.mounted_on # Null
        THEN IF m.mounted_on = Wild THEN Fault ELSE v.ino[m.mounted_on].parent
        ELSE IF up # Null THEN up ELSE cur

Down(v, cur, name) ==
    LET next == lookup(v, cur, name)
        on == find_mount_at(v, next)
    IN  IF next # Null /\ on # {}
        THEN v.mounts[CHOOSE m \in on : \A k \in on : m <= k].root_inode
        ELSE next

\* The tokens of a path, one after the other, from the inode start.
Walk(v, start, toks) ==
    LET step(cur, token) == CASE cur \in {Null, Fault} -> cur
                              [] token = "."           -> cur
                              [] token = ".."          -> DotDot(v, cur)
                              [] OTHER                 -> Down(v, cur, token)
    IN  FoldLeft(step, start, toks)

Bug_from_root(v, cwd, path) == Walk(v, v.mounts[1].root_inode, path.toks)

\* resolve_path(), for a process whose cwd_inode is cwd.
resolve_path(v, cwd, path) ==
    Walk(v, IF path.abs \/ cwd = Null THEN v.mounts[1].root_inode ELSE cwd, path.toks)

\* getcwd(): the names on the way up, the nameless roots left out.
getcwd(v, inode) ==
    LET up[i \in 0..Len(v.ino)] ==
            CASE i = Null             -> <<>>
              [] v.ino[i].name = ""   -> up[v.ino[i].parent]
              [] OTHER                -> Append(up[v.ino[i].parent], v.ino[i].name)
    IN  up[inode]

-----------------------------------------------------------------------------
(* The file systems.                                                       *)

MountRoot(v, fs, on) ==
    [AddInode(v, Inode(Len(v.mounts) + 1, fs, on, "", "DIRECTORY"))
        EXCEPT !.mounts = Append(@, [root_inode |-> Len(v.ino) + 1, mounted_on |-> on])]

\* insert_inode(): the directories on the way that are not there yet, then the
\* inode itself, whether or not something has its name.
insert_inode(v, toks, type) ==
    LET step(s, token) ==
            LET hit == lookup(s.v, s.cur, token)
            IN  IF hit # Null THEN [s EXCEPT !.cur = hit]
                ELSE [v |-> AddChild(s.v, s.cur, token, "DIRECTORY"), cur |-> Len(s.v.ino) + 1]
        at == FoldLeft(step, [v |-> v, cur |-> v.mounts[1].root_inode], Front(toks))
    IN  AddChild(at.v, at.cur, Last(toks), type)

\* InitramfsMountPoint: the root of the tree, from the headers of the archive.
\* Nothing assigns mounted_on of this mount point.
InitramfsMountPoint(archive, garbage) ==
    LET root == [MountRoot([ino |-> <<>>, mounts |-> <<>>], "initramfs", Null)
                    EXCEPT !.mounts[1].mounted_on = garbage]
        insert(v, header) == IF header.toks = <<>> THEN v
                             ELSE insert_inode(v, header.toks, header.type)
    IN  FoldLeft(insert, root, archive)

\* mount(): the file system's own inodes, and its root under the directory
\* that path names, if there is one.
mount(v, name, fs, nodes) ==
    LET w == MountRoot(v, fs, resolve_path(v, Null, Path(TRUE, <<name>>)))
        root == w.mounts[Len(w.mounts)].root_inode
        add(u, n) == AddEntry(AddInode(u, Inode(Len(w.mounts), fs, root, "", n.type)),
                              root, n.name, n.listed, Len(u.ino) + 1)
    IN  FoldLeft(add, w, nodes)

Device(name, type, listed) == [name |-> name, type |-> type, listed |-> listed]
DevMountPoint == <<Device("null", "CHAR_DEVICE", "CHAR_DEVICE"),
                   Device("tty1", "CHAR_DEVICE", "CHAR_DEVICE"),
                   Device("tty2", "CHAR_DEVICE", "CHAR_DEVICE")>>
ProcMountPoint == <<Device("self", "CHAR_DEVICE", "REGULAR")>>

init(v) == mount(mount(mount(v, "dev", "devfs", DevMountPoint), "tmp", "tmpfs", <<>>),
                 "proc", "procfs", ProcMountPoint)

\* mkdir() and create() of TmpDirectoryInode.
TmpAdd(v, dir, name, type) ==
    IF lookup(v, dir, name) # Null THEN [v |-> v, res |-> -1]
    ELSE [v |-> AddChild(v, dir, name, type), res |-> 0]

EROFS == 30
Refused(v) == [v |-> v, res |-> -1]
ReadOnly(v) == [v |-> v, res |-> -EROFS]    \* InitramfsDirectoryInode
DevIgnored(v) == [v |-> v, res |-> 0]       \* DevDirectoryInode: success, and nothing made
ProcIgnored(v) == [v |-> v, res |-> 0]      \* ProcDirectoryInode: the same

\* mkdir(): its directory is found by all tokens of the path but the last;
\* back() of no tokens at all reads in front of the array.
mkdir(v, cwd, path) ==
    LET dir == IF path.toks = <<>> THEN Fault
               ELSE resolve_path(v, cwd, [path EXCEPT !.toks = Front(@)])
        fs == v.ino[dir].fs
    IN  CASE dir = Fault                     -> [v |-> v, res |-> Fault]
          [] dir = Null                      -> Refused(v)
          [] v.ino[dir].type # "DIRECTORY"   -> Refused(v)
          [] fs = "initramfs"                -> ReadOnly(v)
          [] fs = "devfs"                    -> DevIgnored(v)
          [] fs = "procfs"                   -> ProcIgnored(v)
          [] fs = "tmpfs"                    -> TmpAdd(v, dir, Last(path.toks), "DIRECTORY")

\* readdir(): nothing when the path names no directory.
readdir(v, cwd, path) ==
    LET i == resolve_path(v, cwd, path)
    IN  IF i \in {Null, Fault} THEN <<>> ELSE v.ino[i].entries
=============================================================================
