--------------------------- MODULE ObjectStorage ---------------------------
(***************************************************************************)
(* The bucket every service keeps its files in, as the calls of            *)
(* K8sObjectStorage leave it.  A bucket is the set of keys it holds.  A    *)
(* call returns, or raises RuntimeError out of a ClientError; what raised  *)
(* may have taken effect, since the answer can be lost on its way back.    *)
(***************************************************************************)

\* upload_object overwrites what was there.
UploadObject(bucket, key) == bucket \cup {key}
UploadRaised(bucket, key) == {bucket, UploadObject(bucket, key)}

\* download_object raises when the key is not there.
CanDownload(bucket, key) == key \in bucket

\* delete_object does not mind a missing key.
DeleteObject(bucket, key) == bucket \ {key}
DeleteRaised(bucket, key) == {bucket, DeleteObject(bucket, key)}
=============================================================================
