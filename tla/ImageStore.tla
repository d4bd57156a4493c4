----------------------------- MODULE ImageStore -----------------------------
(***************************************************************************)
(* Generated images kept as files so that log rows may hold a name: saved  *)
(* under a temporary name and renamed, served by name to anyone who has    *)
(* it, and deleted oldest first when the directory outgrows its cap.       *)
(*   imagestore/store.go, imagestore/cleanup.go                            *)
(***************************************************************************)
EXTENDS Integers, FiniteSets, FiniteSetsExt

CONSTANTS
    Savers,         \* responses being logged at the same time
    Sizes,
    Caps,           \* values of the setting, 0 empties the directory
    MaxImages       \* bound on names drawn

ASSUME ImagesAssumption ==
    /\ Sizes \subseteq Nat \ {0} /\ Caps \subseteq Nat /\ MaxImages \in Nat
    /\ Savers \cap {"free", "cleanup"} = {}

VARIABLES
    images,         \* files: [name, size, whole, temporary]; a name's number is its age
    drawn,          \* names drawn so far
    imageLock,      \* Store.mu: "free", a saver or "cleanup"
    saver,          \* [name, size] each is writing, name 0 for none
    marked,         \* names that stand in log rows
    cap,            \* what the cleanup under way was told
    evicted         \* history: names the cleanup deleted

imageVars == <<images, drawn, imageLock, saver, marked, cap, evicted>>

NoImage == [name |-> 0, size |-> 0]
ImageTotal == MapThenSumSet(LAMBDA f : f.size, images)
FileOf(w) == {f \in images : f.name = saver[w].name}

ImagesInit ==
    /\ images = {} /\ drawn = 0 /\ imageLock = "free"
    /\ saver = [w \in Savers |-> NoImage]
    /\ marked = {} /\ cap = 0 /\ evicted = {}
-----------------------------------------------------------------------------
\* Rewrite meets an image: save draws a name, locks and creates a file.
NewFile(w, size, temporary) ==
    /\ imageLock = "free" /\ drawn < MaxImages
    /\ drawn' = drawn + 1 /\ imageLock' = w
    /\ saver' = [saver EXCEPT ![w] = [name |-> drawn', size |-> size]]
    /\ images' = images \cup {[name |-> drawn', size |-> 0, whole |-> FALSE, temporary |-> temporary]}
    /\ UNCHANGED <<marked, cap, evicted>>

\* Mutant: it is written under the name it is served by.
SaveInPlace(w, size) == NewFile(w, size, FALSE)
Save(w, size) == NewFile(w, size, TRUE)

WriteImage(w) ==
    /\ imageLock = w /\ \A f \in FileOf(w) : ~f.whole
    /\ images' = (images \ FileOf(w)) \cup {[f EXCEPT !.size = saver[w].size, !.whole = TRUE] : f \in FileOf(w)}
    /\ UNCHANGED <<drawn, imageLock, saver, marked, cap, evicted>>

\* Renamed, its name takes the image's place in the row.
RenameImage(w) ==
    /\ imageLock = w /\ \A f \in FileOf(w) : f.whole
    /\ images' = (images \ FileOf(w)) \cup {[f EXCEPT !.temporary = FALSE] : f \in FileOf(w)}
    /\ marked' = marked \cup {saver[w].name}
    /\ imageLock' = "free" /\ saver' = [saver EXCEPT ![w] = NoImage]
    /\ UNCHANGED <<drawn, cap, evicted>>

\* The row keeps its base64: what was written stays for the cleanup, unless
\* the rename is what failed.
SaveFails(w) ==
    /\ imageLock = w
    /\ images' = images \ {f \in FileOf(w) : f.whole}
    /\ imageLock' = "free" /\ saver' = [saver EXCEPT ![w] = NoImage]
    /\ UNCHANGED <<drawn, marked, cap, evicted>>

\* Enforce: nothing to do under the cap...
BeginEnforce(max) ==
    /\ imageLock = "free" /\ ImageTotal > max
    /\ imageLock' = "cleanup" /\ cap' = max
    /\ UNCHANGED <<images, drawn, saver, marked, evicted>>

\* ... else the oldest goes, temporary or not, ...
EvictOldest ==
    /\ imageLock = "cleanup" /\ ImageTotal > cap
    /\ \E f \in images : /\ \A g \in images : f.name <= g.name
                         /\ images' = images \ {f} /\ evicted' = evicted \cup {f.name}
    /\ UNCHANGED <<drawn, imageLock, saver, marked, cap>>

\* ... until the rest fits.
EndCleanup ==
    /\ imageLock = "cleanup" /\ ImageTotal <= cap
    /\ imageLock' = "free" /\ cap' = 0
    /\ UNCHANGED <<images, drawn, saver, marked, evicted>>

\* The process dies, whoever holds the lock.
ImagesCrash ==
    /\ imageLock # "free" /\ imageLock' = "free" /\ cap' = 0
    /\ saver' = [w \in Savers |-> NoImage]
    /\ UNCHANGED <<images, drawn, marked, evicted>>

ImagesNext ==
    \/ \E w \in Savers : WriteImage(w) \/ RenameImage(w) \/ SaveFails(w) \/ \E size \in Sizes : Save(w, size)
    \/ \E max \in Caps : BeginEnforce(max)
    \/ EvictOldest \/ EndCleanup \/ ImagesCrash

ImagesSpec == ImagesInit /\ [][ImagesNext]_imageVars
-----------------------------------------------------------------------------
(* Only the holder of the lock is writing, each file under its own name.   *)
ImagesTypeOK ==
    /\ imageLock \in Savers \cup {"free", "cleanup"}
    /\ \A w \in Savers : saver[w].name # 0 <=> imageLock = w
    /\ \A f, g \in images : f.name = g.name => f = g
    /\ \A f \in images : f.name \in 1..drawn

\* Handler serves no temporary file.
Served == {f \in images : ~f.temporary}

(* Nobody is ever served half an image, whatever died while it was being   *)
(* written; a name in a log row is served until the cap evicts it; and the *)
(* cleanup takes no image newer than one it leaves                         *)
(* (imagestore/store.go:184-199, cleanup.go:92-116).                       *)
ImagesAreWhole ==
    /\ \A f \in Served : f.whole
    /\ marked \subseteq {f.name : f \in Served} \cup evicted
    /\ \A name \in evicted, f \in images : name < f.name
=============================================================================
