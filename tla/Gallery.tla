------------------------------- MODULE Gallery -------------------------------
(***************************************************************************)
(* The images of a product: rows in the database and files on the disk,   *)
(* which no transaction covers.  The file is written before its row and    *)
(* deleted after it, so that a failure leaves a file without a row and     *)
(* never a row without a file.                                             *)
(***************************************************************************)
EXTENDS Naturals, Sequences, SequencesExt, FiniteSets

CONSTANTS
  Images,
  MAX_IMAGES_PER_PRODUCT

ASSUME GalleryAssumption == MAX_IMAGES_PER_PRODUCT \in Nat

VARIABLES
  productStatus,
  gallery,       \* the ids of the rows, by position
  files,         \* the files that can be served, by the id of their image
  imageSteps,    \* where the upload or the removal of each image is
  lostAnswers,   \* images whose transaction was applied and answered an error
  leftBehind     \* files the code could not delete, or that a crash kept from being deleted

galleryVars == <<productStatus, gallery, files, imageSteps, lostAnswers, leftBehind>>

GalleryInit ==
  /\ productStatus = "DRAFT"
  /\ gallery = <<>> /\ files = {} /\ lostAnswers = {} /\ leftBehind = {}
  /\ imageSteps = [i \in Images |-> "none"]

InGallery == ToSet(gallery)
moveTo(i, step) == imageSteps' = [imageSteps EXCEPT ![i] = step]
isEditable == productStatus # "ARCHIVED"

hasRoom == Len(gallery) < MAX_IMAGES_PER_PRODUCT

-----------------------------------------------------------------------------
(* Upload: check, write the file, add the row under the lock of the product. *)

checkUpload(i) ==
  /\ imageSteps[i] = "none" /\ isEditable /\ Len(gallery) < MAX_IMAGES_PER_PRODUCT
  /\ moveTo(i, "checked")
  /\ UNCHANGED <<productStatus, gallery, files, lostAnswers, leftBehind>>

\* save writes a temporary file and renames it, so a file that fails halfway is never served.
saveFile(i) ==
  /\ imageSteps[i] = "checked"
  /\ \/ moveTo(i, "saved") /\ files' = files \cup {i}
     \/ moveTo(i, "done") /\ UNCHANGED files
  /\ UNCHANGED <<productStatus, gallery, lostAnswers, leftBehind>>

\* The catch: the file goes.
failUpload(i) == moveTo(i, "deleting")

\* The transaction: refused, applied, failed, or applied and its answer lost (the catch cannot tell the last two).
addImage(i) ==
  /\ imageSteps[i] = "saved"
  /\ UNCHANGED <<productStatus, files, leftBehind>>
  /\ IF isEditable /\ hasRoom
     THEN \/ gallery' = Append(gallery, i) /\ moveTo(i, "kept") /\ UNCHANGED lostAnswers
          \/ gallery' = Append(gallery, i) /\ failUpload(i) /\ lostAnswers' = lostAnswers \cup {i}
          \/ failUpload(i) /\ UNCHANGED <<gallery, lostAnswers>>
     ELSE failUpload(i) /\ UNCHANGED <<gallery, lostAnswers>>

\* deleteFile never fails its caller: what it could not delete is left behind and logged.
deleteFile(i) ==
  /\ imageSteps[i] = "deleting" /\ moveTo(i, "done")
  /\ \/ files' = files \ {i} /\ UNCHANGED leftBehind
     \/ leftBehind' = leftBehind \cup {i} /\ UNCHANGED files
  /\ UNCHANGED <<productStatus, gallery, lostAnswers>>

-----------------------------------------------------------------------------
(* The other changes, each under the lock of the product. *)

reorderImages(ids) ==
  /\ isEditable /\ Len(ids) = Len(gallery) /\ ToSet(ids) = InGallery
  /\ gallery' = ids
  /\ UNCHANGED <<productStatus, files, imageSteps, lostAnswers, leftBehind>>

\* The row goes in the transaction; when its answer is lost the file stays.
remove(i) ==
  /\ isEditable /\ i \in InGallery
  /\ gallery' = RemoveAt(gallery, CHOOSE n \in DOMAIN gallery : gallery[n] = i)
  /\ \/ moveTo(i, "deleting") /\ UNCHANGED <<lostAnswers, leftBehind>>
     \/ moveTo(i, "done") /\ lostAnswers' = lostAnswers \cup {i} /\ leftBehind' = leftBehind \cup {i}
  /\ UNCHANGED <<productStatus, files>>

\* archive and reactivate wait for the lock of the product, so they are never in the middle of a change.
archiveProduct ==
  /\ isEditable /\ productStatus' = "ARCHIVED"
  /\ UNCHANGED <<gallery, files, imageSteps, lostAnswers, leftBehind>>
reactivateProduct ==
  /\ ~isEditable /\ productStatus' = "DRAFT"
  /\ UNCHANGED <<gallery, files, imageSteps, lostAnswers, leftBehind>>

\* The process stops: what it was doing is over, and the files it held stay.
crashUploads ==
  LET going == {i \in Images : imageSteps[i] \in {"checked", "saved", "deleting"}} IN
  /\ going # {}
  /\ imageSteps' = [i \in Images |-> IF i \in going THEN "done" ELSE imageSteps[i]]
  /\ leftBehind' = leftBehind \cup (going \cap files)
  /\ UNCHANGED <<productStatus, gallery, files, lostAnswers>>

GalleryNext ==
  \/ \E i \in Images : checkUpload(i) \/ saveFile(i) \/ addImage(i) \/ deleteFile(i) \/ remove(i)
  \/ \E order \in [1..Len(gallery) -> InGallery] : reorderImages(order)
  \/ archiveProduct \/ reactivateProduct \/ crashUploads

GallerySpec == GalleryInit /\ [][GalleryNext]_galleryVars

-----------------------------------------------------------------------------
(* Properties. *)

\* At most MAX_IMAGES_PER_PRODUCT rows, each image once, though every upload counted the rows before it wrote its file.
GalleryTypeOK ==
  /\ productStatus \in {"DRAFT", "ARCHIVED"} /\ files \subseteq Images
  /\ IsInjective(gallery) /\ Len(gallery) <= MAX_IMAGES_PER_PRODUCT /\ InGallery \subseteq Images

\* A row is never without its file, whatever fails and wherever the process stops: only the answer of a transaction
\* that was applied can be lost, and the upload then deletes the file of a row that exists.
ImagesHaveFiles == InGallery \subseteq files \cup lostAnswers

\* A file without a row is one that an upload or a removal in progress still has in its hands, one the log names, or
\* one that a crash or a lost answer kept: no other path of the code forgets one.
NoFileForgotten ==
  \A i \in files \ InGallery : imageSteps[i] \in {"saved", "deleting"} \/ i \in leftBehind

\* The gallery, its limit and the files on the disk agree through uploads that race, fail or are cut.
GalleryHasItsFiles == GalleryTypeOK /\ ImagesHaveFiles /\ NoFileForgotten
=============================================================================
