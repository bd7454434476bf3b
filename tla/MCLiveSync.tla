----------------------------- MODULE MCLiveSync ------------------------------
(* Small instances of LiveSync for TLC. *)
EXTENDS LiveSync, TLC

\* The post and the album share the queue and the workers only: TLC looks at
\* one of them at a time.
MCPost == fresh = {} /\ asks = 0
MCAlbum == fresh = Items /\ asks = MaxAsks

MCInit == Init /\ (MCPost \/ MCAlbum)
MCSpec == MCInit /\ [][Next]_vars /\ WF_vars(Goes)
=============================================================================
