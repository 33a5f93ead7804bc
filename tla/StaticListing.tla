--------------------------- MODULE StaticListing ---------------------------
(***************************************************************************)
(* StaticFileServer at start-up (src/static.cpp): it checks its directory, *)
(* takes an inotify watch on it, and lists every regular file below it     *)
(* into the table requests are answered from.  The directory belongs to    *)
(* everyone: between any two system calls other processes create, remove,  *)
(* replace and resize files.                                               *)
(*                                                                         *)
(* A place is the sequence of names that leads to a file from the          *)
(* directory.  Texts are sequences too, one element for a name and one for *)
(* a slash, so that what substr cuts off is modelled.  Symbolic links are  *)
(* left out, and so are collisions of std::hash: the table is keyed by the *)
(* text whose hash the code takes.  What requests do with the table is     *)
(* RequestFlow's subject.                                                  *)
(***************************************************************************)
EXTENDS Integers, Sequences, FiniteSets, SequencesExt, Functions

CONSTANTS
  Local,      \* the local directory, as given to the constructor
  Prefix,     \* the prefix of the URLs of static files
  Places,     \* where files may be
  Sizes,      \* their sizes, of any length
  UIntRange,  \* 2^32: the size kept of a file is a uint32_t
  MaxChanges, \* bound: changes others make to the directory
  MaxStarts   \* bound: calls of start

ASSUME StaticAssumption ==
  /\ Local \in Seq(STRING) /\ Local # <<>>
  /\ Prefix \in Seq(STRING)
  /\ Places \subseteq Seq(STRING) /\ <<>> \notin Places
  /\ \A p \in Places : Len(p) > 1 => Front(p) \in Places
  /\ Sizes \subseteq Nat /\ Sizes # {} /\ UIntRange \in Nat \ {0}
  /\ MaxChanges \in Nat /\ MaxStarts \in Nat

VARIABLES
  kind,     \* what is at each place: "file", "dir", "other" or "absent"
  size,     \* the size of what is there
  pc,       \* what start does next
  dirs,     \* the stack of directories to list: their texts and places
  dir,      \* the one being listed
  listed,   \* the names that were there when it was opened
  returned, \* the names readdir returned
  entry,    \* the last of them
  files,    \* the table
  fd,       \* whether the server holds an inotify descriptor
  failed,   \* history: an opendir failed since start was last called
  changes,  \* history: changes made since the first start; bounds them
  starts,   \* calls of start; bounds them
  steady    \* history: the places where a file has always been

world == <<kind, size, changes, steady>>
listing == <<dirs, dir, listed, returned, entry>>
vars == <<world, pc, listing, files, fd, failed, starts>>

Slash == <<"/">>

\* The constructor ends the directory's text with a slash.
path == IF Last(Local) = "/" THEN Local ELSE Local \o Slash

Under(p) == {q \in Places : Len(q) = Len(p) + 1 /\ Front(q) = p}
NamesIn(p) == {Last(q) : q \in {r \in Under(p) : kind[r] # "absent"}}

\* The text of a place, from the directory.
Text(p) == [i \in 1..2 * Len(p) - 1 |-> IF i % 2 = 1 THEN p[(i + 1) \div 2] ELSE "/"]

NoDir == [text |-> <<>>, place |-> <<>>]
\* A tree: what has something below it is a directory.
IsTree(k) == \A p \in Places : (\E q \in Under(p) : k[q] # "absent") => k[p] = "dir"

Init ==
  /\ kind \in {k \in [Places -> {"file", "dir", "absent"}] : IsTree(k)}
  /\ size \in [Places -> Sizes]
  /\ pc = "idle" /\ dirs = <<>> /\ dir = NoDir /\ listed = {} /\ returned = {} /\ entry = ""
  /\ files = <<>> /\ fd = FALSE
  /\ failed = FALSE /\ changes = 0 /\ starts = 0
  /\ steady = {p \in Places : kind[p] = "file"}

-----------------------------------------------------------------------------
\* The other processes.

\* Something is made, removed or replaced, or a file is written to.
othersChange(p, k, n) ==
  /\ starts > 0 /\ changes < MaxChanges
  /\ kind' = [kind EXCEPT ![p] = k] /\ size' = [size EXCEPT ![p] = n]
  /\ IsTree(kind')
  /\ <<kind, size>>' # <<kind, size>>
  /\ changes' = changes + 1
  /\ steady' = IF k = "file" THEN steady ELSE steady \ {p}
  /\ UNCHANGED <<pc, listing, files, fd, failed, starts>>

-----------------------------------------------------------------------------
\* start.

\* The directory is not there, or inotify has no descriptor or no watch to
\* give: start returns false, and closes what it opened.
startRefused ==
  /\ pc = "idle" /\ starts < MaxStarts
  /\ starts' = starts + 1
  /\ UNCHANGED <<world, pc, listing, files, fd, failed>>

\* The watch is taken before the files are listed.  A descriptor held from
\* an earlier start is forgotten.
startWatching ==
  /\ pc = "idle" /\ starts < MaxStarts
  /\ starts' = starts + 1
  /\ fd' = TRUE
  /\ dirs' = <<[text |-> path, place |-> <<>>]>>
  /\ failed' = FALSE
  /\ pc' = "pop"
  /\ UNCHANGED <<world, dir, listed, returned, entry, files>>

-----------------------------------------------------------------------------
\* list_files.

Popped == [next |-> Last(dirs), rest |-> Front(dirs)]

openDir ==
  /\ pc = "pop" /\ dirs # <<>>
  /\ dir' = Popped.next /\ dirs' = Popped.rest
  /\ dir'.place \in {<<>>} \cup {p \in Places : kind[p] = "dir"}
  /\ listed' = NamesIn(dir'.place) /\ returned' = {}
  /\ pc' = "read"
  /\ UNCHANGED <<world, entry, files, fd, failed, starts>>

\* The locals of list_files end with it.
Returns ==
  /\ dirs' = <<>> /\ dir' = NoDir /\ listed' = {} /\ returned' = {} /\ entry' = ""
  /\ pc' = "idle"

\* A directory that is gone, or cannot be opened, ends the whole listing.
openDirFails ==
  /\ pc = "pop" /\ dirs # <<>>
  /\ failed' = TRUE
  /\ Returns
  /\ UNCHANGED <<world, files, fd, starts>>

listingEnds ==
  /\ pc = "pop" /\ dirs = <<>>
  /\ Returns
  /\ UNCHANGED <<world, files, fd, failed, starts>>

\* readdir returns what was there at opendir, and may return what came later.
readEntry(n) ==
  /\ pc = "read" /\ n \in (listed \cup NamesIn(dir.place)) \ returned
  /\ entry' = n /\ returned' = returned \cup {n}
  /\ pc' = "stat"
  /\ UNCHANGED <<world, dirs, dir, listed, files, fd, failed, starts>>

\* It may end once all that stayed was returned; closedir.
endOfDir ==
  /\ pc = "read" /\ listed \cap NamesIn(dir.place) \subseteq returned
  /\ dir' = NoDir /\ listed' = {} /\ returned' = {} /\ entry' = ""
  /\ pc' = "pop"
  /\ UNCHANGED <<world, dirs, files, fd, failed, starts>>

tname == dir.text \o Slash \o <<entry>>
Here == Append(dir.place, entry)

statDir ==
  /\ pc = "stat" /\ kind[Here] = "dir"
  /\ dirs' = Append(dirs, [text |-> tname, place |-> Here])
  /\ pc' = "read"
  /\ UNCHANGED <<world, dir, listed, returned, entry, files, fd, failed, starts>>

statFile ==
  /\ pc = "stat" /\ kind[Here] = "file"
  /\ pc' = "statAgain"
  /\ UNCHANGED <<world, listing, files, fd, failed, starts>>

\* MUTANT: break for continue.
StopsDir == "pop"

\* stat fails, or what is there is neither: the next one.
NextEntry == "read"
statNothing ==
  /\ pc = "stat" /\ kind[Here] \notin {"file", "dir"}
  /\ pc' = NextEntry
  /\ UNCHANGED <<world, listing, files, fd, failed, starts>>

\* MUTANT: the slash is not cut off.
KeyWithSlash(t) == SubSeq(t, Len(path) + 1, Len(t))

\* What is cut off is the directory and the slash it added.
Key(t) == SubSeq(t, Len(path) + 2, Len(t))

\* emplace: the first entry of a key stays.
Tracked(k, n) ==
  [x \in DOMAIN files \cup {k} |-> IF x \in DOMAIN files THEN files[x] ELSE n]

\* The size is taken by a second stat, of whatever is there by then; st_size is
\* an off_t, the size of a struct file a uint32_t.
statAgain ==
  /\ pc = "statAgain"
  /\ files' = IF kind[Here] = "absent" THEN files ELSE Tracked(Key(tname), size[Here] % UIntRange)
  /\ pc' = "read"
  /\ UNCHANGED <<world, listing, fd, failed, starts>>

\* The destructor closes the descriptor it knows.
destroy ==
  /\ pc = "idle" /\ starts > 0
  /\ fd' = FALSE
  /\ files' = <<>> /\ pc' = "gone"
  /\ UNCHANGED <<world, listing, failed, starts>>

Step ==
  \/ openDir \/ openDirFails \/ listingEnds
  \/ \E n \in {Last(p) : p \in Places} : readEntry(n)
  \/ endOfDir \/ statDir \/ statFile \/ statNothing \/ statAgain

Next ==
  \/ \E p \in Places, k \in {"file", "dir", "other", "absent"}, n \in Sizes :
       othersChange(p, k, n)
  \/ startRefused \/ startWatching \/ Step \/ destroy

Spec == Init /\ [][Next]_vars

-----------------------------------------------------------------------------
\* Properties.

TypeOK ==
  /\ kind \in [Places -> {"file", "dir", "other", "absent"}] /\ size \in [Places -> Sizes]
  /\ pc \in {"idle", "pop", "read", "stat", "statAgain", "gone"}
  /\ pc \in {"stat", "statAgain"} => Here \in Places
  /\ \A i \in DOMAIN dirs : dirs[i].place \in Places \cup {<<>>}
  /\ \A k \in DOMAIN files : files[k] \in Nat
  /\ fd \in BOOLEAN /\ failed \in BOOLEAN
  /\ changes \in 0..MaxChanges /\ starts \in 0..MaxStarts /\ steady \subseteq Places

\* The text operator() looks up for a URL: what follows the prefix.
Looked(url) == SubSeq(url, Len(Prefix) + 1, Len(url))

\* When nobody touched the directory and every part of it could be opened,
\* the server knows exactly the files that are there, under the URLs they are
\* asked by, whatever the prefix: only its length is cut off.  Their sizes are
\* exact below 2^32 bytes, and what is left of them in 32 bits from there on.
QuietListingExact ==
  fd /\ pc = "idle" /\ changes = 0 /\ ~failed =>
    LET there == {p \in Places : kind[p] = "file"}
    IN /\ DOMAIN files = {Looked(Prefix \o Text(p)) : p \in there}
       /\ \A p \in there : files[Looked(Prefix \o Text(p))] = size[p] % UIntRange

\* Whatever the others do, a listing that was not cut short knows every file
\* that was there from before start until now, and was never replaced.
StayingFilesListed ==
  fd /\ pc = "idle" /\ ~failed =>
    \A p \in steady : Text(p) \in DOMAIN files

=============================================================================
