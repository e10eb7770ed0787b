--------------------------------- MODULE Images ---------------------------------
(***************************************************************************)
(* Uploaded images and the rows that name them: the cover of an article,   *)
(* the logo, the banner and the gallery of a company.                      *)
(*                                                                         *)
(* Files change at once, rows when the request commits.  A request reads   *)
(* the row, puts its file on the disk and takes the one it replaces away,  *)
(* and commits.  Files are named after the request that uploads them; the  *)
(* order of a gallery and its captions are left out, and so is a PATCH of  *)
(* the company that names images itself.                                   *)
(***************************************************************************)
EXTENDS Requests

CONSTANTS Singles, Galleries   \* the columns: of one image, of several

VARIABLES
  named,   \* the files that a column names
  disk,    \* the files under uploads/
  remover, \* observer: the request that took a file away, or None
  failed,  \* observer: the requests that were rolled back
  about    \* observer: the column a request is about, or None

imageVars == <<requestVars, named, disk, remover, failed, about>>

Columns == Singles \cup Galleries

ImageInit ==
  /\ RequestInit
  /\ named = [c \in Columns |-> {}]
  /\ disk = {} /\ failed = {}
  /\ remover = [f \in Requests |-> None]
  /\ about = [r \in Requests |-> None]

\* Rolled back: the row stays as it is, the disk as it has become.
ImageAbort(r) ==
  /\ End(r)
  /\ failed' = failed \cup {r}
  /\ UNCHANGED <<named, disk, remover, about>>

ImageRead(r, c, record) ==
  /\ Begin(r, record)
  /\ about' = [about EXCEPT ![r] = c]
  /\ UNCHANGED <<named, disk, remover, failed>>

UploadRead(r, c) ==
  ImageRead(r, c, [kind |-> "upload", was |-> named[c], drop |-> {}, stored |-> FALSE])

\* Of a gallery, one of its images.
RemoveRead(r, c, drop) ==
  /\ drop \subseteq named[c]
  /\ IF c \in Singles THEN drop = named[c] ELSE \E f \in Requests : drop = {f}
  /\ ImageRead(r, c, [kind |-> "remove", was |-> named[c], drop |-> drop, stored |-> FALSE])

TakeAway(r, files) ==
  remover' = [f \in Requests |-> IF f \in files \cap disk THEN r ELSE remover[f]]

\* The new image is saved, and then the one it replaces is deleted.
StoreUpload(r) ==
  /\ Doing(r, "upload") /\ ~req[r].stored
  /\ LET replaced == IF about[r] \in Singles THEN req[r].was ELSE {} IN
     /\ disk' = (disk \cup {r}) \ replaced
     /\ TakeAway(r, replaced)
  /\ req' = [req EXCEPT ![r].stored = TRUE]
  /\ UNCHANGED <<ended, saw, named, failed, about>>

DropRemoved(r) ==
  /\ Doing(r, "remove") /\ ~req[r].stored
  /\ disk' = disk \ req[r].drop
  /\ TakeAway(r, req[r].drop)
  /\ req' = [req EXCEPT ![r].stored = TRUE]
  /\ UNCHANGED <<ended, saw, named, failed, about>>

\* A gallery is written as it was read, with the new image.
UploadCommit(r) ==
  /\ Doing(r, "upload") /\ req[r].stored /\ End(r)
  /\ named' = [named EXCEPT ![about[r]] =
                 IF about[r] \in Singles THEN {r} ELSE req[r].was \cup {r}]
  /\ UNCHANGED <<disk, remover, failed, about>>

\* Mutant: the row keeps the image whose file is gone.
RemoveCommitKeeping(r) ==
  /\ Doing(r, "remove") /\ req[r].stored /\ End(r)
  /\ UNCHANGED <<named, disk, remover, failed, about>>

\* NULL over NULL writes nothing.
RemoveCommit(r) ==
  /\ Doing(r, "remove") /\ req[r].stored /\ End(r)
  /\ named' = IF req[r].was = {} THEN named
              ELSE [named EXCEPT ![about[r]] = req[r].was \ req[r].drop]
  /\ UNCHANGED <<disk, remover, failed, about>>

-----------------------------------------------------------------------------
ImageNext ==
  \E r \in Requests :
    \/ \E c \in Columns :
         UploadRead(r, c) \/ \E drop \in SUBSET Requests : RemoveRead(r, c, drop)
    \/ StoreUpload(r) \/ DropRemoved(r)
    \/ UploadCommit(r) \/ RemoveCommit(r)
    \/ ImageAbort(r)

ImageSpec == ImageInit /\ [][ImageNext]_imageVars

-----------------------------------------------------------------------------
(* Properties.                                                             *)

ImageRequest ==
  [kind : {"upload", "remove"}, was : SUBSET Requests, drop : SUBSET Requests,
   stored : BOOLEAN]

\* Every variable has its type; a column of one image names one at most.
ImageTypeOK ==
  /\ req \in [Requests -> ImageRequest \cup {Idle}]
  /\ named \in [Columns -> SUBSET Requests]
  /\ disk \subseteq Requests /\ failed \subseteq Requests
  /\ remover \in [Requests -> Requests \cup {None}]
  /\ about \in [Requests -> Columns \cup {None}]
  /\ \A r \in Requests : req[r] # Idle => about[r] \in Columns

\* The request that took a file of column c away has yet to commit, or it
\* failed, or, in a gallery, another change of the gallery overlapped it.
Excused(c, f) ==
  LET d == remover[f] IN
    /\ d \in Requests
    /\ \/ d \notin ended \/ d \in failed
       \/ c \in Galleries /\ \E q \in Requests : about[q] = c /\ Overlap(q, d)

\* A row names a file that is not there only while the request that took it
\* away has yet to commit, or when that request failed, or, in a gallery,
\* when another change of the gallery overlapped it and wrote the name back.
NamedImagesExist ==
  \A c \in Columns : \A f \in named[c] \ disk : Excused(c, f)

=============================================================================
