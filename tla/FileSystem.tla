----------------------------- MODULE FileSystem -----------------------------
(***************************************************************************)
(* Inodes, directories and open files: the inode cache, directories and    *)
(* path names of fs.c, the table of open files of file.c and the calls of  *)
(* sysfile.c, made by processes with one thread each, with crashes.        *)
(*                                                                         *)
(* What a process still has to do is the sequence todo[p] of the inode     *)
(* operations left in its call.  An operation is a section under the lock  *)
(* of one inode, or under a spin-lock; it waits for the lock it needs and  *)
(* may keep it for the operations after it.  Each reference to an inode    *)
(* that a call holds is held by one operation.  A panic is an operation    *)
(* that is never enabled.                                                  *)
(*                                                                         *)
(* iget finds the one cache entry of an inode under icache.lock, so an     *)
(* entry is named by the number of its inode; the cache has room for all.  *)
(* The disk is what the log shows to the calls, durable what it has        *)
(* committed: Log.tla and BufferCache.tla are about the two.               *)
(***************************************************************************)
EXTENDS Integers, Sequences, FiniteSets, SequencesExt, FiniteSetsExt

CONSTANTS
  Process,
  NINODES,      \* inodes of the disk are 1 .. NINODES, 1 is the root
  Name,         \* names in directories besides "." and ".."
  Path,         \* path names: sequences of names, after "/" if absolute
  LinkPaths,    \* the pairs of them that link is called with
  Layout,       \* first states: a directory tree, the removed directories in it
                \* that are still in use, the directories processes may be in,
                \* a file that is open, or 0
  NFILE, NOFILE,
  MaxCalls, MaxCrashes

ROOTINO == 1
Inum == 1 .. NINODES
Dots == {".", ".."}
Entry == Name \union Dots

ASSUME FileSystemAssumption ==
  /\ 0 \notin Process /\ NINODES \in Nat \ {0}
  /\ \A path \in Path : path \in Seq(Entry \union {"/"})
  /\ LinkPaths \subseteq Path \X Path
  /\ \A d \in Layout :
       /\ d.tree \in [Inum -> [type : {"free", "dir", "file", "dev"}, entry : [Entry -> Inum \union {0}]]]
       /\ d.removed \subseteq Inum /\ d.cwds \subseteq Inum /\ d.open \in Inum \union {0}

VARIABLES
  dinode,       \* type and nlink of each inode on disk
  entry,        \* the directory entries in its content, 0 for none
  durable,      \* all of the disk, as last committed
  inode,        \* the inode cache: ref, valid, type and nlink
  holder,       \* the process that holds the lock of each cached inode, or 0
  file,         \* ftable: ref and ip of each open file
  ofile, cwd,   \* of each process; a process that does not exist has no cwd
  todo,
  inop,         \* the processes between begin_op and end_op
  calls, crashes,
  removed,      \* history: directories that were unlinked
  lost,         \* history: inodes whose entry was freed with its directory
  dangled       \* history: a directory was freed that ".." of another still names

disk == <<dinode, entry, removed, lost>>
cache == <<inode, holder>>
files == <<file, ofile, cwd>>
bounds == <<calls, crashes>>
fsVars == <<disk, dangled, durable, cache, files, todo, inop, bounds>>

None == [e \in Entry |-> 0]
FreeInode == [ref |-> 0, valid |-> FALSE, type |-> "free", nlink |-> 0]
Fds == 1 .. NOFILE

Type == {"free", "dir", "file", "dev"}

FileSystemTypeOK ==
  /\ dinode \in [Inum -> [type : Type, nlink : Nat]]
  /\ entry \in [Inum -> [Entry -> Inum \union {0}]]
  /\ inode \in [Inum -> [ref : Nat, valid : BOOLEAN, type : Type, nlink : Nat]]
  /\ holder \in [Inum -> Process \union {0}]
  /\ file \in [1 .. NFILE -> [ref : Nat, ip : Inum \union {0}]]
  /\ ofile \in [Process -> [Fds -> 0 .. NFILE]]
  /\ cwd \in [Process -> Inum \union {0}]
  /\ inop \subseteq Process

(* The names of an inode: entries other than ".", and the root's own ".."; *)
(* a removed directory no longer counts for its parent.                    *)
NamesIn(ent, gone, i) ==
  {<<d, n>> \in Inum \X (Entry \ {"."}) :
     ent[d][n] = i /\ d # i /\ (n = ".." => d \notin gone)}
LinksIn(ent, gone, i) == Cardinality(NamesIn(ent, gone, i)) + (IF i = ROOTINO THEN 1 ELSE 0)

Referenced(dirs, open) ==
  [i \in Inum |-> [FreeInode EXCEPT !.ref = Cardinality({p \in Process : dirs[p] = i})
                                           + (IF i = open THEN 1 ELSE 0)]]
NoFile == [ref |-> 0, ip |-> 0]

(* mkfs, or what the calls have left: every link is counted. *)
FileSystemInit ==
  /\ \E d \in Layout :
       /\ entry = [i \in Inum |-> d.tree[i].entry]
       /\ dinode = [i \in Inum |-> [type |-> d.tree[i].type, nlink |-> LinksIn(entry, d.removed, i)]]
       /\ removed = d.removed
       /\ cwd \in [Process -> d.cwds]
       /\ inode = Referenced(cwd, d.open)
       /\ file = [f \in 1 .. NFILE |-> IF f = 1 /\ d.open # 0 THEN [ref |-> 1, ip |-> d.open] ELSE NoFile]
       /\ \E p \in Process :
            ofile = [q \in Process |-> [fd \in Fds |-> IF q = p /\ fd = 1 /\ d.open # 0 THEN 1 ELSE 0]]
  /\ lost = {} /\ dangled = (\E i \in removed : dinode[entry[i][".."]].type = "free")
  /\ durable = disk
  /\ holder = [i \in Inum |-> 0]
  /\ todo = [p \in Process |-> <<>>]
  /\ inop = {} /\ calls = 0 /\ crashes = 0

-----------------------------------------------------------------------------
(* An operation of a call: ip is the inode it holds a reference to, res    *)
(* the result of the path lookup before it, path what is left to look up.  *)
Op(o, i) == [op |-> o, ip |-> i, res |-> 0, path |-> <<>>, name |-> "", type |-> "free"]
Put(i) == Op("put", i)
IsAbs(path) == path # <<>> /\ Head(path) = "/"
Elems(path) == IF IsAbs(path) THEN Tail(path) ELSE path
Walk(o, path, start) == [Op(o, start) EXCEPT !.path = Elems(path)]
NameOf(path) == IF Elems(path) = <<>> THEN "" ELSE Last(path)
Named(o, i, path) == [Op(o, i) EXCEPT !.name = NameOf(path)]

At(p, o) == todo[p] # <<>> /\ Head(todo[p]).op = o
Then(p, ops) == todo' = [todo EXCEPT ![p] = ops \o Tail(@)]

(* The operation after this one is given the inode found, or 0. *)
Answer(p, ops, i) ==
  LET rest == Tail(todo[p]) IN todo' = [todo EXCEPT ![p] = ops \o <<[Head(rest) EXCEPT !.res = i]>> \o Tail(rest)]

(* iget, and idup, of an inode in the cache c *)
Iget(c, i) == [c EXCEPT ![i].ref = @ + 1, ![i].valid = @ /\ c[i].ref > 0]

(* ilock: read from the disk what is not valid; no type is a panic. *)
MayLock(i) == holder[i] = 0 /\ (inode[i].valid \/ dinode[i].type # "free")
Read(i) == IF inode[i].valid THEN inode[i]
           ELSE [inode[i] EXCEPT !.valid = TRUE, !.type = dinode[i].type, !.nlink = dinode[i].nlink]
Ilock(i) == [inode EXCEPT ![i] = Read(i)]

(* A change of nlink by k in the cache c, and iupdate in the disk d *)
Relink(c, i, k) == [c EXCEPT ![i].nlink = @ + k]

Start(path, p) == IF IsAbs(path) THEN ROOTINO ELSE cwd[p]

(* What each call does after the lookup of its first path *)
AfterLookup(call, path, arg) ==
  CASE call = "open" -> <<[Op("open", 0) EXCEPT !.name = arg]>>
    [] call = "create" -> <<[Named("create", 0, path) EXCEPT !.type = arg],
                            Op(IF arg = "file" THEN "opened" ELSE "made", 0)>>
    [] call = "unlink" -> <<Named("unlink", 0, path)>>
    [] call = "chdir" -> <<Op("chdir", 0)>>
    [] call = "link" -> <<[Named("link", 0, arg) EXCEPT !.path = arg]>>

(* begin_op, and the start of the lookup of the path *)
Begin(p, lookup, path, call, arg) ==
  /\ cwd[p] # 0 /\ todo[p] = <<>> /\ calls < MaxCalls
  /\ calls' = calls + 1
  /\ inop' = inop \union {p}
  /\ inode' = Iget(inode, Start(path, p))
  /\ todo' = [todo EXCEPT ![p] = <<Walk(lookup, path, Start(path, p))>>
                                   \o AfterLookup(call, path, arg) \o <<Op("end", 0)>>]
  /\ UNCHANGED <<dangled, disk, durable, holder, files, crashes>>

Open(p, path, mode) == Begin(p, "namei", path, "open", mode)
Create(p, path, type) == Begin(p, "nameiparent", path, "create", type)
Unlink(p, path) == Begin(p, "nameiparent", path, "unlink", "")
Chdir(p, path) == Begin(p, "namei", path, "chdir", "")
Link(p, old, new) == Begin(p, "namei", old, "link", new)

-----------------------------------------------------------------------------
StepsOn(o, path, found) ==
  IF Tail(path) = <<>> THEN <<>> ELSE <<[Op(o, found) EXCEPT !.path = Tail(path)]>>

(* namex, one element of the path: the directory is unlocked before the    *)
(* next one is locked.                                                     *)
Namex(p, o) ==
  LET i == Head(todo[p]).ip
      path == Head(todo[p]).path
      found == entry[i][Head(path)]
  IN /\ At(p, o)
     /\ \/ /\ path = <<>>
           /\ IF o = "namei" THEN Answer(p, <<>>, i) ELSE Answer(p, <<Put(i)>>, 0)
           /\ UNCHANGED inode
        \/ /\ path # <<>> /\ MayLock(i)
           /\ IF Read(i).type # "dir" THEN inode' = Ilock(i) /\ Answer(p, <<Put(i)>>, 0)
              ELSE IF o = "nameiparent" /\ Tail(path) = <<>> THEN inode' = Ilock(i) /\ Answer(p, <<>>, i)
              ELSE IF found = 0 THEN inode' = Ilock(i) /\ Answer(p, <<Put(i)>>, 0)
              ELSE /\ inode' = Iget(Ilock(i), found)
                   /\ IF Tail(path) = <<>> THEN Answer(p, <<Put(i)>>, found)
                                          ELSE Then(p, <<Put(i)>> \o StepsOn(o, path, found))
     /\ UNCHANGED <<dangled, disk, durable, holder, files, inop, bounds>>

FreesFault(i) == inode[i].valid /\ inode[i].nlink = 0

(* The last reference to an inode without links *)
Frees(i) == inode[i].valid /\ inode[i].nlink = 0 /\ inode[i].ref = 1

(* iput: truncate and free the inode on disk, and keep its lock ... *)
Iput(p) ==
  LET i == Head(todo[p]).ip
  IN /\ At(p, "put") /\ holder[i] = 0
     /\ IF Frees(i)
          THEN /\ dinode' = [dinode EXCEPT ![i].type = "free"]
               /\ entry' = [entry EXCEPT ![i] = None]
               /\ inode' = [inode EXCEPT ![i].type = "free"]
               /\ lost' = lost \union {entry[i][n] : n \in {m \in Name : entry[i][m] # 0}}
               /\ dangled' = (dangled \/ \E d \in Inum \ {i} : entry[d][".."] = i)
               /\ holder' = [holder EXCEPT ![i] = p]
               /\ Then(p, <<Op("freed", i)>>)
          ELSE /\ Then(p, <<Op("drop", i)>>)
               /\ UNCHANGED <<dinode, entry, inode, lost, dangled, holder>>
     /\ UNCHANGED <<durable, files, inop, bounds, removed>>

Invalidated(i) == [inode EXCEPT ![i].valid = FALSE]

(* ... mark the cached inode as not valid, and unlock it ... *)
IputFreed(p) ==
  LET i == Head(todo[p]).ip
  IN /\ At(p, "freed")
     /\ inode' = Invalidated(i)
     /\ holder' = [holder EXCEPT ![i] = 0]
     /\ Then(p, <<Op("drop", i)>>)
     /\ UNCHANGED <<dangled, disk, durable, files, inop, bounds>>

(* ... and drop the reference. *)
IputDrop(p) ==
  /\ At(p, "drop")
  /\ inode' = [inode EXCEPT ![Head(todo[p]).ip].ref = @ - 1]
  /\ Then(p, <<>>)
  /\ UNCHANGED <<dangled, disk, durable, holder, files, inop, bounds>>

Unlock(p) ==
  /\ At(p, "unlock")
  /\ holder' = [holder EXCEPT ![Head(todo[p]).ip] = 0]
  /\ Then(p, <<Put(Head(todo[p]).ip)>>)
  /\ UNCHANGED <<dangled, disk, durable, inode, files, inop, bounds>>

(* end_op: the last of the calls under way commits them all. *)
EndOp(p) ==
  /\ At(p, "end")
  /\ inop' = inop \ {p}
  /\ durable' = IF inop = {p} THEN disk ELSE durable
  /\ Then(p, <<>>)
  /\ UNCHANGED <<dangled, disk, cache, files, bounds>>

-----------------------------------------------------------------------------
(* A call whose path was not found; create then returns 0 to its caller. *)
NotFound(p) ==
  /\ todo[p] # <<>> /\ Head(todo[p]).op \in {"open", "unlink", "chdir", "link", "create"}
  /\ Head(todo[p]).res = 0
  /\ IF At(p, "create") THEN todo' = [todo EXCEPT ![p] = <<Op("end", 0)>>] ELSE Then(p, <<>>)
  /\ UNCHANGED <<dangled, disk, durable, cache, files, inop, bounds>>

(* sys_link: count the link first, so that the inode cannot be freed ... *)
Link1(p) ==
  LET o == Head(todo[p])
      i == o.res
  IN /\ At(p, "link") /\ i # 0 /\ MayLock(i)
     /\ IF Read(i).type = "dir"
          THEN /\ inode' = Ilock(i)
               /\ Then(p, <<Put(i)>>)
               /\ UNCHANGED dinode
          ELSE LET s == Start(o.path, p)
               IN /\ inode' = Iget(Relink(Ilock(i), i, 1), s)
                  /\ dinode' = Relink(dinode, i, 1)
                  /\ Then(p, <<Walk("nameiparent", o.path, s), [Op("dirlink", i) EXCEPT !.name = o.name]>>)
     /\ UNCHANGED <<dangled, durable, holder, files, inop, bounds, entry, removed, lost>>

(* ... then write the entry.  dirlink puts an inode that has the name      *)
(* already, while the directory is locked.                                 *)
Link2(p) ==
  LET o == Head(todo[p])
      d == o.res
      old == entry[d][o.name]
  IN /\ At(p, "dirlink") /\ d # 0 /\ MayLock(d)
     /\ IF old # 0
          THEN /\ inode' = Iget(Ilock(d), old)
               /\ holder' = [holder EXCEPT ![d] = p]
               /\ Then(p, <<Put(old), Op("unlock", d), Op("linkbad", o.ip)>>)
               /\ UNCHANGED entry
          ELSE /\ inode' = Ilock(d)
               /\ entry' = [entry EXCEPT ![d][o.name] = o.ip]
               /\ Then(p, <<Put(d), Put(o.ip)>>)
               /\ UNCHANGED holder
     /\ UNCHANGED <<dangled, dinode, durable, files, inop, bounds, removed, lost>>

LinkNoParent(p) ==
  /\ At(p, "dirlink") /\ Head(todo[p]).res = 0
  /\ Then(p, <<Op("linkbad", Head(todo[p]).ip)>>)
  /\ UNCHANGED <<dangled, disk, durable, cache, files, inop, bounds>>

UncountedFault(i) == inode
Uncounted(i) == Relink(Ilock(i), i, -1)

LinkBad(p) ==
  LET i == Head(todo[p]).ip
  IN /\ At(p, "linkbad") /\ MayLock(i)
     /\ inode' = Uncounted(i)
     /\ dinode' = [dinode EXCEPT ![i].nlink = inode'[i].nlink]
     /\ Then(p, <<Put(i)>>)
     /\ UNCHANGED <<dangled, durable, holder, files, inop, bounds, entry, removed, lost>>

-----------------------------------------------------------------------------
(* sys_unlink with the directory locked ... *)
Unlink1(p) ==
  LET o == Head(todo[p])
      d == o.res
  IN /\ At(p, "unlink") /\ d # 0 /\ MayLock(d)
     /\ IF o.name \in Dots \/ entry[d][o.name] = 0
          THEN /\ inode' = Ilock(d)
               /\ Then(p, <<Put(d)>>)
               /\ UNCHANGED holder
          ELSE /\ inode' = Iget(Ilock(d), entry[d][o.name])
               /\ holder' = [holder EXCEPT ![d] = p]
               /\ Then(p, <<[o EXCEPT !.op = "unlink2", !.ip = entry[d][o.name]]>>)
     /\ UNCHANGED <<dangled, disk, durable, files, inop, bounds>>

IsDirEmpty(i) == \A n \in Name : entry[i][n] = 0

(* ... and with the inode locked as well: erase the entry, unlock the      *)
(* directory and put it ...                                                *)
Unlink2(p) ==
  LET o == Head(todo[p])
      i == o.ip
      d == o.res
      isDir == Read(i).type = "dir"
  IN /\ At(p, "unlink2") /\ MayLock(i) /\ Read(i).nlink > 0
     /\ IF isDir /\ ~IsDirEmpty(i)
          THEN /\ inode' = Ilock(i)
               /\ Then(p, <<Put(i), Op("unlock", d)>>)
               /\ UNCHANGED <<dinode, entry, holder, removed>>
          ELSE /\ entry' = [entry EXCEPT ![d][o.name] = 0]
               /\ dinode' = IF isDir THEN Relink(dinode, d, -1) ELSE dinode
               /\ inode' = IF isDir THEN Relink(Ilock(i), d, -1) ELSE Ilock(i)
               /\ removed' = IF isDir THEN removed \union {i} ELSE removed
               /\ holder' = [holder EXCEPT ![d] = 0, ![i] = p]
               /\ Then(p, <<Put(d), Op("unlink3", i)>>)
     /\ UNCHANGED <<dangled, durable, files, inop, bounds, lost>>

(* ... and only then uncount the link. *)
Unlink3(p) ==
  LET i == Head(todo[p]).ip
  IN /\ At(p, "unlink3")
     /\ inode' = Relink(inode, i, -1)
     /\ dinode' = Relink(dinode, i, -1)
     /\ holder' = [holder EXCEPT ![i] = 0]
     /\ Then(p, <<Put(i)>>)
     /\ UNCHANGED <<dangled, durable, files, inop, bounds, entry, removed, lost>>

-----------------------------------------------------------------------------
FreeInums == {i \in Inum : dinode[i].type = "free"}

(* create unlocks and puts the directory before it locks what it found. *)
FoundFault(p, o, old) ==
  [locks |-> [holder EXCEPT ![o.res] = p],
   ops |-> <<[o EXCEPT !.op = "exists", !.ip = old, !.res = 0], Op("unlock", o.res)>>]
Found(p, o, old) ==
  [locks |-> holder, ops |-> <<Put(o.res), [o EXCEPT !.op = "exists", !.ip = old, !.res = 0]>>]

(* create: the inode that has the name, or ialloc with the directory       *)
(* locked ...                                                              *)
Create1(p) ==
  LET o == Head(todo[p])
      d == o.res
      old == entry[d][o.name]
  IN /\ At(p, "create") /\ d # 0 /\ MayLock(d)
     /\ \/ /\ old # 0
           /\ inode' = Iget(Ilock(d), old)
           /\ holder' = Found(p, o, old).locks
           /\ Then(p, Found(p, o, old).ops)
           /\ UNCHANGED disk
        \/ /\ old = 0 /\ FreeInums # {}
           /\ LET i == Min(FreeInums)
              IN /\ dinode' = [dinode EXCEPT ![i] = [type |-> o.type, nlink |-> 0]]
                 /\ removed' = removed \ {i}
                 /\ lost' = lost \ {i}
                 /\ inode' = Iget(Ilock(d), i)
                 /\ holder' = [holder EXCEPT ![d] = p]
                 /\ Then(p, <<[o EXCEPT !.op = "create2", !.ip = i]>>)
           /\ UNCHANGED entry
     /\ UNCHANGED <<dangled, durable, files, inop, bounds>>

ParentCounted(c, d) == Relink(c, d, 1)

(* ... then, with both locked, the inode, its dots and the entry.  The     *)
(* directory is unlocked and put while the new inode stays locked.         *)
Create2(p) ==
  LET o == Head(todo[p])
      i == o.ip
      d == o.res
      counted == [Ilock(i) EXCEPT ![i].nlink = 1]
  IN /\ At(p, "create2") /\ MayLock(i)
     /\ inode' = IF o.type = "dir" THEN ParentCounted(counted, d) ELSE counted
     /\ dinode' = [j \in Inum |-> IF j \in {i, d} THEN [type |-> inode'[j].type, nlink |-> inode'[j].nlink]
                                                  ELSE dinode[j]]
     /\ entry' = [entry EXCEPT ![i] = IF o.type = "dir" THEN [None EXCEPT !["."] = i, ![".."] = d] ELSE @,
                               ![d][o.name] = i]
     /\ holder' = [holder EXCEPT ![i] = p, ![d] = 0]
     /\ Answer(p, <<Put(d)>>, i)
     /\ UNCHANGED <<dangled, durable, files, inop, bounds, removed, lost>>

(* The name exists: only open may have it, for a file. *)
Exists(p) ==
  LET o == Head(todo[p])
      i == o.ip
  IN /\ At(p, "exists") /\ MayLock(i)
     /\ inode' = Ilock(i)
     /\ IF o.type = "file" /\ Read(i).type = "file"
          THEN holder' = [holder EXCEPT ![i] = p] /\ Answer(p, <<>>, i)
          ELSE UNCHANGED holder /\ todo' = [todo EXCEPT ![p] = <<Put(i), Op("end", 0)>>]
     /\ UNCHANGED <<dangled, disk, durable, files, inop, bounds>>

(* mkdir and mknod give the new inode back. *)
Made(p) ==
  LET i == Head(todo[p]).res
  IN /\ At(p, "made")
     /\ holder' = [holder EXCEPT ![i] = 0]
     /\ Then(p, <<Put(i)>>)
     /\ UNCHANGED <<dangled, disk, durable, inode, files, inop, bounds>>

(* sys_open without O_CREATE: a directory may only be read. *)
Open1(p) ==
  LET o == Head(todo[p])
      i == o.res
  IN /\ At(p, "open") /\ i # 0 /\ MayLock(i)
     /\ inode' = Ilock(i)
     /\ IF Read(i).type = "dir" /\ o.name # "rdonly"
          THEN UNCHANGED holder /\ Then(p, <<Put(i)>>)
          ELSE holder' = [holder EXCEPT ![i] = p] /\ Then(p, <<[Op("opened", 0) EXCEPT !.res = i]>>)
     /\ UNCHANGED <<dangled, disk, durable, files, inop, bounds>>

FreeFiles == {f \in 1 .. NFILE : file[f].ref = 0}
FreeFds(p) == {fd \in Fds : ofile[p][fd] = 0}

(* filealloc and fdalloc, or give the inode back.  The fields of the file  *)
(* are set after end_op; its process has no other thread to see it before. *)
Opened(p) ==
  LET i == Head(todo[p]).res
  IN /\ At(p, "opened")
     /\ holder' = [holder EXCEPT ![i] = 0]
     /\ IF FreeFiles # {} /\ FreeFds(p) # {}
          THEN /\ file' = [file EXCEPT ![Min(FreeFiles)] = [ref |-> 1, ip |-> i]]
               /\ ofile' = [ofile EXCEPT ![p][Min(FreeFds(p))] = Min(FreeFiles)]
               /\ Then(p, <<>>)
          ELSE Then(p, <<Put(i)>>) /\ UNCHANGED <<file, ofile>>
     /\ UNCHANGED <<dangled, disk, durable, inode, cwd, inop, bounds>>

(* sys_chdir.  cwd is set after end_op, as in Opened. *)
Chdir1(p) ==
  LET i == Head(todo[p]).res
  IN /\ At(p, "chdir") /\ i # 0 /\ MayLock(i)
     /\ inode' = Ilock(i)
     /\ IF Read(i).type = "dir"
          THEN cwd' = [cwd EXCEPT ![p] = i] /\ Then(p, <<Put(cwd[p])>>)
          ELSE UNCHANGED cwd /\ Then(p, <<Put(i)>>)
     /\ UNCHANGED <<dangled, disk, durable, holder, file, ofile, inop, bounds>>

-----------------------------------------------------------------------------
Call(p) == cwd[p] # 0 /\ todo[p] = <<>> /\ calls < MaxCalls /\ calls' = calls + 1

Dup(p, fd) ==
  LET f == ofile[p][fd]
  IN /\ Call(p) /\ f # 0 /\ FreeFds(p) # {}
     /\ ofile' = [ofile EXCEPT ![p][Min(FreeFds(p))] = f]
     /\ file' = [file EXCEPT ![f].ref = @ + 1]
     /\ UNCHANGED <<dangled, disk, durable, cache, cwd, todo, inop, crashes>>

Close(p, fd) ==
  /\ Call(p) /\ ofile[p][fd] # 0
  /\ ofile' = [ofile EXCEPT ![p][fd] = 0]
  /\ todo' = [todo EXCEPT ![p] = <<[Op("close", 0) EXCEPT !.res = ofile[p][fd]]>>]
  /\ UNCHANGED <<dangled, disk, durable, cache, file, cwd, inop, crashes>>

LastCloseFault(f) == FALSE
LastClose(f) == file[f].ref = 1

(* fileclose: the last reference puts the inode, in a transaction. *)
FileClose(p) ==
  LET f == Head(todo[p]).res
  IN /\ At(p, "close") /\ file[f].ref > 0
     /\ IF LastClose(f)
          THEN /\ file' = [file EXCEPT ![f] = NoFile]
               /\ Then(p, <<Op("begin", file[f].ip)>>)
          ELSE /\ file' = [file EXCEPT ![f].ref = @ - 1]
               /\ Then(p, <<>>)
     /\ UNCHANGED <<dangled, disk, durable, cache, ofile, cwd, inop, bounds>>

BeginPut(p) ==
  /\ At(p, "begin")
  /\ inop' = inop \union {p}
  /\ Then(p, <<Put(Head(todo[p]).ip), Op("end", 0)>>)
  /\ UNCHANGED <<dangled, disk, durable, cache, files, bounds>>

(* fork: filedup of every open file, idup of the directory. *)
ForkFiles(p, q) ==
  /\ Call(p) /\ cwd[q] = 0 /\ todo[q] = <<>>
  /\ ofile' = [ofile EXCEPT ![q] = ofile[p]]
  /\ file' = [f \in 1 .. NFILE |-> [file[f] EXCEPT !.ref = @ + Cardinality({fd \in Fds : ofile[p][fd] = f})]]
  /\ cwd' = [cwd EXCEPT ![q] = cwd[p]]
  /\ inode' = Iget(inode, cwd[p])
  /\ UNCHANGED <<dangled, disk, durable, holder, todo, inop, crashes>>

(* exit: close the files, then put the directory. *)
ExitFiles(p) ==
  LET open == SetToSortSeq({fd \in Fds : ofile[p][fd] # 0}, <)
  IN /\ Call(p) /\ \E q \in Process \ {p} : cwd[q] # 0
     /\ todo' = [todo EXCEPT ![p] =
                   [k \in DOMAIN open |-> [Op("close", 0) EXCEPT !.res = ofile[p][open[k]]]]
                     \o <<Op("begin", cwd[p])>>]
     /\ ofile' = [ofile EXCEPT ![p] = [fd \in Fds |-> 0]]
     /\ cwd' = [cwd EXCEPT ![p] = 0]
     /\ UNCHANGED <<dangled, disk, durable, cache, file, inop, crashes>>

(* A crash and a restart: what was not committed is gone. *)
Crash ==
  /\ crashes < MaxCrashes
  /\ crashes' = crashes + 1
  /\ dinode' = durable[1] /\ entry' = durable[2] /\ removed' = durable[3] /\ lost' = durable[4]
  /\ inode' = Referenced([p \in Process |-> ROOTINO], 0)
  /\ holder' = [i \in Inum |-> 0]
  /\ file' = [f \in 1 .. NFILE |-> NoFile]
  /\ ofile' = [p \in Process |-> [fd \in Fds |-> 0]]
  /\ cwd' = [p \in Process |-> ROOTINO]
  /\ todo' = [p \in Process |-> <<>>]
  /\ inop' = {}
  /\ UNCHANGED <<dangled, durable, calls>>

FileCall(p) ==
  \/ \E path \in Path, mode \in {"rdonly", "rdwr"} : Open(p, path, mode)
  \/ \E path \in Path, type \in {"file", "dir", "dev"} : Create(p, path, type)
  \/ \E path \in Path : Unlink(p, path)
  \/ \E path \in Path : Chdir(p, path)
  \/ \E pair \in LinkPaths : Link(p, pair[1], pair[2])
  \/ \E fd \in Fds : Dup(p, fd)
  \/ \E fd \in Fds : Close(p, fd)
  \/ \E q \in Process : ForkFiles(p, q)
  \/ ExitFiles(p)

FileStep(p) ==
  \/ Namex(p, "namei") \/ Namex(p, "nameiparent") \/ NotFound(p)
  \/ Iput(p) \/ IputFreed(p) \/ IputDrop(p) \/ Unlock(p) \/ EndOp(p)
  \/ Link1(p) \/ Link2(p) \/ LinkNoParent(p) \/ LinkBad(p)
  \/ Unlink1(p) \/ Unlink2(p) \/ Unlink3(p)
  \/ Create1(p) \/ Create2(p) \/ Exists(p) \/ Made(p)
  \/ Open1(p) \/ Opened(p) \/ Chdir1(p)
  \/ FileClose(p) \/ BeginPut(p)

FileSystemNext ==
  \/ \E p \in Process : FileCall(p)
  \/ \E p \in Process : FileStep(p)
  \/ Crash

FileSystemSpec == FileSystemInit /\ [][FileSystemNext]_fsVars

-----------------------------------------------------------------------------
Pending(Has(_)) == UNION {{<<p, k>> : k \in {j \in DOMAIN todo[p] : Has(todo[p][j])}} : p \in Process}

(* ref of a cached inode is the number of open files and of current        *)
(* directories that are the inode, and of the references that calls still  *)
(* hold; ref of a file is the number of its descriptors.  No path through  *)
(* a call, with all its early returns, loses a reference or drops one      *)
(* twice.                                                                  *)
RefsExact ==
  /\ FileSystemTypeOK
  /\ \A i \in Inum :
       inode[i].ref = Cardinality({f \in 1 .. NFILE : file[f].ref > 0 /\ file[f].ip = i})
                      + Cardinality({p \in Process : cwd[p] = i})
                      + Cardinality(Pending(LAMBDA o : o.ip = i))
                      + Cardinality(Pending(LAMBDA o : o.op # "close" /\ o.res = i))
  /\ \A f \in 1 .. NFILE :
       file[f].ref = Cardinality({<<p, fd>> \in Process \X Fds : ofile[p][fd] = f})
                     + Cardinality(Pending(LAMBDA o : o.op = "close" /\ o.res = f))

(* An inode that somebody holds, as an open file or as the current         *)
(* directory, is not freed while they do, though all its names be gone.    *)
HeldAllocated ==
  /\ \A f \in 1 .. NFILE : file[f].ref > 0 => dinode[file[f].ip].type # "free"
  /\ \A p \in Process : cwd[p] # 0 => dinode[cwd[p]].type = "dir"

(* The cache is write-through: what it says of an inode that is not locked *)
(* is what the disk says, also of one freed and allocated again while it   *)
(* is cached.                                                              *)
CacheCurrent ==
  \A i \in Inum :
    inode[i].ref > 0 /\ inode[i].valid /\ holder[i] = 0 =>
      inode[i].type = dinode[i].type /\ inode[i].nlink = dinode[i].nlink

(* At every moment the inode of an entry is allocated and counts the       *)
(* entry, so that unlink, or a lookup, never meets one that is not.  Only  *)
(* ".." of a directory that was removed may name an inode that is gone;    *)
(* once that has happened, a call that goes through it may meet an inode   *)
(* that create has not finished.                                           *)
EntriesCounted ==
  ~dangled => \A i \in Inum :
    NamesIn(entry, removed, i) # {} =>
      dinode[i].type # "free" /\ dinode[i].nlink >= LinksIn(entry, removed, i)

(* What a crash leaves: every link is counted, and ".." of a directory is  *)
(* the one that has its name.  Files that were created in a directory that *)
(* had been removed are lost with it, and are not counted here; nor is a   *)
(* disk on which ".." of a removed directory has named a freed inode.      *)
DurableConsistent ==
  LET dino == durable[1]
      ent == durable[2]
      gone == durable[3]
  IN ~dangled => \A i \in Inum :
       /\ dino[i].type # "free" /\ i \notin durable[4] => dino[i].nlink = LinksIn(ent, gone, i)
       /\ dino[i].type = "dir" /\ i \notin gone \union {ROOTINO} =>
            \E n \in Name : ent[ent[i][".."]][n] = i

(* The inode whose lock p needs next, or 0 *)
Needs(p) ==
  IF todo[p] = <<>> THEN 0
  ELSE LET o == Head(todo[p])
       IN IF o.op \in {"put", "linkbad", "unlink2", "create2", "exists"} THEN o.ip
          ELSE IF o.op \in {"namei", "nameiparent"} THEN (IF o.path = <<>> THEN 0 ELSE o.ip)
          ELSE IF o.op \in {"open", "unlink", "chdir", "link", "create", "dirlink"} THEN o.res
          ELSE 0

(* Sets of processes each of which waits for a lock that one of them holds *)
Deadlocks ==
  {S \in SUBSET Process \ {{}} : \A p \in S : Needs(p) # 0 /\ holder[Needs(p)] \in S}

(* Locking an inode by its name, the directory first, cannot deadlock, not *)
(* even by way of ".." and ".": in every circle of processes that wait for *)
(* each other one is in iput, which takes the lock of an inode while the   *)
(* call holds that of another.                                             *)
DeadlockOnlyInIput == \A S \in Deadlocks : \E p \in S : At(p, "put")

(* iput frees an inode only when nobody can reach it, and whoever holds    *)
(* one finds in the cache what is on the disk.                             *)
HeldCurrent == HeldAllocated /\ CacheCurrent

(* link, unlink, create and mkdir keep the link counts right: at every     *)
(* step no entry is left uncounted, and what a crash leaves is exact.      *)
LinksCounted == EntriesCounted /\ DurableConsistent

=============================================================================
