--------------------------- MODULE SessionEpochs ---------------------------
(***************************************************************************)
(* What the rest of the daemon may rely on about the session's mode and    *)
(* epoch (cmd/dictad/session.go): the only three critical sections that    *)
(* write them. Session, with all its interleavings, implements this        *)
(* module, and TypePipeline is checked against nothing more than this.     *)
(***************************************************************************)
EXTENDS Naturals

VARIABLES mode,  \* s.mode; "none" when s.open is false
          epoch  \* s.epoch

Modes == {"type", "clip"}

\* open_'s first section: a new mode always comes with a new epoch.
OpenSession(m) ==
    /\ mode # m
    /\ mode' = m
    /\ epoch' = epoch + 1

\* close's second section keeps the epoch, so that what was said still types.
CloseSession ==
    /\ mode' = "none"
    /\ UNCHANGED epoch

\* rollbackOpen's section.
RollbackSession ==
    /\ mode' = "none"
    /\ epoch' = epoch + 1

EpochInit == mode = "none" /\ epoch = 0

EpochNext ==
    \/ \E m \in Modes : OpenSession(m)
    \/ CloseSession
    \/ RollbackSession

EpochSpec == EpochInit /\ [][EpochNext]_<<mode, epoch>>

=============================================================================
