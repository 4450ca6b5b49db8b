---------------------------- MODULE MCMinerSystem -----------------------------
(* One mining thread with two nonces, of which it hashes one per scan.       *)
EXTENDS MinerSystem

\* what drops a connection without a call of stratum_reauthenticate
LinkFaults == {"connect", "setup", "reconnect"}

OneLinkFault  == {<<LinkFaults>>}
TwoLinkFaults == {<<LinkFaults, LinkFaults>>}

\* what makes stratum_reauthenticate run, and one way for it to fail
ReauthFaults == {"timeout", "garbage", "stale", "reconnect"}

TwoReauthFaults == {<<ReauthFaults, ReauthFaults>>}

TimeoutOnly == {"timeout"}
OneTimeout  == {<<TimeoutOnly>>}

AllReauthFaults == ReauthFaults \cup {"recv", "setup"}

\* What starts a backoff is the third failure in a row.  Two of them end a
\* reauthentication, which was called for garbage (and leaves submissions
\* suspended) or after a failed read (and resumes them); the reconnect loop
\* meets the third, and in the second case three more for another backoff.
Backoffs == {<<{"garbage"}, {"setup"}, {"setup"}, {"setup"}>>,
             <<{"recv"}, {"setup"}, {"setup"}, {"setup"}, {"setup"}, {"setup"}>>}

ReauthOrBackoff == TwoReauthFaults \cup Backoffs
=============================================================================
