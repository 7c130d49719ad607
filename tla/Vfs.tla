---------------------------------- MODULE Vfs ----------------------------------
(***************************************************************************)
(* The tree of directories and mounted file systems: fs/vfs.c, fs/fs.c,    *)
(* the directory operations of fs/tmpfs.c and fs/initramfs.c, and          *)
(* sys_mkdir, sys_mount, sys_chdir and the O_CREAT part of sys_open.       *)
(*                                                                         *)
(* System calls run with interrupts enabled.  Creating a name is three     *)
(* steps: the check that it is new, the insertion of an entry, and the     *)
(* filling in of what the entry leads to.  Mounting is two, one for each   *)
(* of its stores to a vnode.  A lookup is one step.                        *)
(***************************************************************************)
EXTENDS Integers, Sequences, FiniteSetsExt

CONSTANTS
  Tasks,      \* the processes
  Names,      \* the names programs use
  MaxVnodes,  \* bound: vnodes in all file systems
  MaxMounts,  \* bound: mounts
  Stacked,    \* do programs mount on "/" or on a directory that is mounted already?
  Nothing     \* no pending creation

\* "initramfs" is the name the kernel itself uses.
Root == 1
InitramfsName == "initramfs"

\* Programs create neither "." nor "..", which every directory has.
ASSUME VfsAssumption ==
  /\ MaxVnodes \in Nat /\ MaxVnodes >= 4
  /\ MaxMounts \in Nat /\ MaxMounts >= 1
  /\ Stacked \in BOOLEAN
  /\ Names # {} /\ Names \cap {".", ".."} = {}

VARIABLES
  vnodes,   \* every vnode with its inode
  mounts,   \* every struct mount: [root, covered]
  cwd,      \* of each process
  creating, \* of each process: the name it creates and the vnode made for it (NoEntry until
            \* the entry is linked): [dir, name, type, made], or Nothing
  mounting  \* of each process: the mount whose root it has not yet marked, or NoMount

vfsVars == <<vnodes, mounts, cwd, creating, mounting>>

Vnodes == 1..Len(vnodes)
NoEntry == 0   \* -ENOENT
NoMount == 0   \* a null mount pointer
Garbage == -1  \* a pointer read from memory that nobody has written

NewVnode(type, fs, parent, mount) ==
  [type |-> type, fs |-> fs, parent |-> parent, mount |-> mount, subdirs |-> <<>>]

IsDir(v) == vnodes[v].type = "directory"

(***************************************************************************)
(* vfs_lookup                                                              *)
(***************************************************************************)
\* `v` is the root vnode of a mounted file system
IsMountRoot(v) == vnodes[v].mount # NoMount /\ mounts[vnodes[v].mount].root = v

IsCovered(v) == vnodes[v].mount # NoMount /\ mounts[vnodes[v].mount].root # v

\* down to the root of the file system mounted last
Uppermost(v) ==
  LET Up[w \in Vnodes] == IF IsCovered(w) THEN Up[mounts[vnodes[w].mount].root] ELSE w
  IN  Up[v]

\* inode->vnptr of the inode of v, which is in memory before it is written
Vnptr(v) == IF vnodes[v].type = "unfinished" THEN Garbage ELSE v

\* tmpfs_lookup, initramfs_lookup: the first entry with the name.  A lookup below a file
\* reads its data as a directory.
Lookup(v, tok) ==
  IF tok = "." THEN v
  ELSE IF ~IsDir(v) THEN Garbage
  ELSE IF tok = ".." THEN Vnptr(vnodes[v].parent)
  ELSE LET named == {i \in DOMAIN vnodes[v].subdirs : vnodes[v].subdirs[i].name = tok}
       IN  IF named = {} THEN NoEntry ELSE Vnptr(vnodes[v].subdirs[Min(named)].vnode)

\* one component of the path
Step(curr, tok) ==
  LET from == IF tok = ".." /\ IsMountRoot(curr) THEN mounts[vnodes[curr].mount].covered ELSE curr
      next == Lookup(from, tok)
  IN  IF next \in {NoEntry, Garbage} THEN next ELSE Uppermost(next)

Walk(start, path) ==
  LET From(tok) == [v \in Vnodes |-> Step(v, tok)]
      Curr[i \in 0..Len(path)] ==
        IF i = 0 THEN start
        ELSE IF Curr[i - 1] \notin Vnodes THEN Curr[i - 1]
        ELSE From(path[i])[Curr[i - 1]]
  IN  Curr[Len(path)]

Components == Names \cup {InitramfsName, ".."}
Paths == {<<c>> : c \in Components} \cup {<<c, d>> : c, d \in Components}

\* What absolute and relative paths of process p lead to.  "/" is the root of the root file
\* system itself, whatever is mounted on it.  What a call does with Garbage is not followed.
Reached(p) ==
  ({Root} \cup {Walk(start, path) : start \in {Root, cwd[p]}, path \in Paths}) \ {NoEntry, Garbage}

ReachedDirs(p) == {v \in Reached(p) : IsDir(v)}

(***************************************************************************)
(* Creating: vfs_mkdir, or vfs_open with O_CREAT of a path without a vnode *)
(***************************************************************************)
NameIsTaken(dir, name) == \E i \in DOMAIN vnodes[dir].subdirs : vnodes[dir].subdirs[i].name = name

Idle(p) == creating[p] = Nothing /\ mounting[p] = NoMount

\* An initramfs is read-only (-EROFS).
BeginCreate(p, dir, name, type) ==
  /\ Idle(p)
  /\ vnodes[dir].fs = "tmpfs"
  /\ ~NameIsTaken(dir, name)
  /\ creating' = [creating EXCEPT ![p] = [dir |-> dir, name |-> name, type |-> type, made |-> NoEntry]]
  /\ UNCHANGED <<vnodes, mounts, cwd, mounting>>

\* mutant: at the head of the list
InsertFirst(c) ==
  vnodes' = Append([vnodes EXCEPT ![c.dir].subdirs = <<[name |-> c.name, vnode |-> Len(vnodes) + 1]>> \o @],
                   NewVnode("unfinished", "tmpfs", c.dir, NoMount))

\* tmpfs_create_dentry up to list_add_tail, which links an entry to an inode that is
\* allocated and no more
InsertLast(c) ==
  vnodes' = Append([vnodes EXCEPT ![c.dir].subdirs = Append(@, [name |-> c.name, vnode |-> Len(vnodes) + 1])],
                   NewVnode("unfinished", "tmpfs", c.dir, NoMount))

Link(p) ==
  /\ creating[p] # Nothing /\ creating[p].made = NoEntry
  /\ Len(vnodes) < MaxVnodes
  /\ InsertLast(creating[p])
  /\ creating' = [creating EXCEPT ![p].made = Len(vnodes) + 1]
  /\ UNCHANGED <<mounts, cwd, mounting>>

\* the rest of tmpfs_create_dentry: the inode and the vnode are written
Complete(p) ==
  /\ creating[p] # Nothing /\ creating[p].made # NoEntry
  /\ vnodes' = [vnodes EXCEPT ![creating[p].made].type = creating[p].type]
  /\ creating' = [creating EXCEPT ![p] = Nothing]
  /\ UNCHANGED <<mounts, cwd, mounting>>

(***************************************************************************)
(* vfs_mount of a tmpfs, and sys_chdir                                     *)
(***************************************************************************)
\* setup_mount makes a root that is its own parent; the mount pointer of the uppermost
\* file system on the target, a root's own one included, is overwritten.
MountOn(target) ==
  LET root == Len(vnodes) + 1
  IN  /\ mounts' = Append(mounts, [root |-> root, covered |-> target])
      /\ vnodes' = Append([vnodes EXCEPT ![Uppermost(target)].mount = Len(mounts) + 1],
                          NewVnode("directory", "tmpfs", root, NoMount))

IsMounted(v) == \E m \in DOMAIN mounts : mounts[m].root = v

Mount(p, target) ==
  /\ Idle(p)
  /\ Len(vnodes) < MaxVnodes /\ Len(mounts) < MaxMounts
  /\ Stacked \/ (target # Root /\ ~IsMounted(target) /\ ~IsCovered(target))
  /\ MountOn(target)
  /\ mounting' = [mounting EXCEPT ![p] = Len(mounts) + 1]
  /\ UNCHANGED <<cwd, creating>>

\* mutant: the new root does not point to its mount
RootUnmarked(m) == UNCHANGED vnodes

MarkRoot(m) == vnodes' = [vnodes EXCEPT ![mounts[m].root].mount = m]

\* the last store of vfs_mount
FinishMount(p) ==
  /\ mounting[p] # NoMount
  /\ MarkRoot(mounting[p])
  /\ mounting' = [mounting EXCEPT ![p] = NoMount]
  /\ UNCHANGED <<mounts, cwd, creating>>

\* to any vnode, also a file; with Root as the target it stands for sys_exec too, which
\* sets cwd to the root
Chdir(p, target) ==
  /\ Idle(p)
  /\ cwd' = [cwd EXCEPT ![p] = target]
  /\ UNCHANGED <<vnodes, mounts, creating, mounting>>

\* fs_init and initramfs_init: an initramfs with one directory, mounted on /initramfs
VfsInit ==
  /\ vnodes = <<[NewVnode("directory", "tmpfs", Root, NoMount) EXCEPT
                   !.subdirs = <<[name |-> InitramfsName, vnode |-> 2]>>],
                NewVnode("directory", "tmpfs", Root, 1),
                [NewVnode("directory", "initramfs", 3, 1) EXCEPT
                   !.subdirs = <<[name |-> CHOOSE n \in Names : TRUE, vnode |-> 4]>>],
                NewVnode("directory", "initramfs", 3, NoMount)>>
  /\ mounts = <<[root |-> 3, covered |-> 2]>>
  /\ cwd = [p \in Tasks |-> Root]
  /\ creating = [p \in Tasks |-> Nothing]
  /\ mounting = [p \in Tasks |-> NoMount]

VfsNext ==
  \E p \in Tasks :
    \/ Link(p)
    \/ Complete(p)
    \/ FinishMount(p)
    \/ \E target \in Reached(p) : Chdir(p, target) \/ Mount(p, target)
    \/ \E dir \in ReachedDirs(p), name \in Names, type \in {"file", "directory"} :
         BeginCreate(p, dir, name, type)

VfsSpec == VfsInit /\ [][VfsNext]_vfsVars

(***************************************************************************)
(* Properties                                                              *)
(***************************************************************************)
BeingMounted(v) == \E p \in Tasks : mounting[p] # NoMount /\ mounts[mounting[p]].root = v

\* ".." leads back to where one came from, across file systems mounted on any directory:
\* from v into a directory that has an entry in v and up again is v.  (Not before vfs_mount
\* has marked the root it mounts; not over a mount on a file, whose ".." is read from the
\* file's data; and not when file systems are stacked: the crossing in vfs_lookup is done
\* once, and the mount pointer of a root that is covered in turn no longer says that it is
\* one.)
DotDotReturns ==
  \A v \in {v \in Vnodes : IsDir(v) /\ ~IsCovered(v)} :
    \A i \in DOMAIN vnodes[v].subdirs :
      LET entry == Lookup(v, vnodes[v].subdirs[i].name)
          child == Step(v, vnodes[v].subdirs[i].name)
      IN  entry # Garbage /\ IsDir(entry) /\ ~BeingMounted(child) => Step(child, "..") = v

\* A path that has led to a file or a directory keeps naming it, whatever is created
\* meanwhile and even if two tasks create the same name; only a mount redirects it.  (What
\* it led to before is nothing or, between Link and Complete, garbage.)
PathsAreStable ==
  [][UNCHANGED <<mounts, mounting>> =>
       \A path \in Paths : Walk(Root, path) \notin {NoEntry, Garbage} =>
         Walk(Root, path)' = Walk(Root, path)]_vfsVars

\* An inode points to its vnode when a lookup finds it (tmpfs.c:26, "Point to the vnode
\* which points to this struct").
EntriesHaveVnodes ==
  \A v \in Vnodes : \A i \in DOMAIN vnodes[v].subdirs : Vnptr(vnodes[v].subdirs[i].vnode) # Garbage

\* A directory has no two entries of one name (tmpfs.c:142, "return -EEXIST").
NamesUnique ==
  \A v \in Vnodes : \A i, j \in DOMAIN vnodes[v].subdirs :
    vnodes[v].subdirs[i].name = vnodes[v].subdirs[j].name => i = j

\* The current directory is a directory (sched.h:51, "Current working directory").
CwdIsDirectory == \A p \in Tasks : IsDir(cwd[p])
===============================================================================
