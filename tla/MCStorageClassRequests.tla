----------------------- MODULE MCStorageClassRequests -----------------------
(* One claim, asked for as either type and made again after deletions.     *)
EXTENDS StorageClassRequests, TLC
=============================================================================
