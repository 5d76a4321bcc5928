----------------------------- MODULE BlobStore ------------------------------
(***************************************************************************)
(* The blob store of internal/storage, by what its two implementations     *)
(* have in common.  An object is its key; its content is left out, because *)
(* no implementation ever shows a part of one: the local store renames a   *)
(* finished temporary file into place, S3 puts an object in one request.   *)
(***************************************************************************)

VARIABLE blobs   \* the keys that have an object

\* Put replaces what is there.
PutBlob(key) == blobs' = blobs \cup {key}

\* Delete: a key without an object is an error that changes nothing.
RemoveBlob(key) == blobs' = blobs \ {key}
=============================================================================
