------------------------------ MODULE MCSodlGc ------------------------------
(* Instances of SodlGc for TLC.                                            *)
EXTENDS SodlGc, TLC

CONSTANTS m, x, y, up, api, share, pin

\* Shared content: up is a chunked upload (manifest m, chunk x), and api names
\* stored blobs: m and x as the roots of one representation, x of a second.
SharedContent == up :> <<m, x>> @@ api :> <<m, x, x>>
SharedRoots   == up :> <<1>> @@ api :> <<2, 3>>

\* The smallest shared content: both origins name one blob.
OneBlobContent == up :> <<m>> @@ api :> <<m>>
OneBlobRoots   == up :> <<1>> @@ api :> <<1>>

\* Private content (AEAD with a key or nonce per origin): no blob is named by
\* two origins.
PrivateContent == up :> <<m, x>> @@ api :> <<y>>
PrivateRoots   == up :> <<1>> @@ api :> <<1>>

RefKinds == [r \in Refs |-> IF r = share THEN "share" ELSE "pin"]
=============================================================================
