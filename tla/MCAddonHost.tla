---------------------------- MODULE MCAddonHost ----------------------------
(* Model values and bounds for AddonHost. *)
EXTENDS AddonHost

CONSTANTS mic1, mic2, remote1, remote2, get

\* Remote tracks are all audio.
AllAudio == [t \in RemoteTracks |-> "audio"]

=============================================================================
