---------------------------- MODULE MCTranscript ----------------------------
\* A chat with two sessions, one of whose answers names its question.
EXTENDS Transcript

CONSTANTS q1, a1, a2, s1, s2

MCSessions == <<s1, s2>>
MCInReplyTo == (a1 :> q1) @@ (a2 :> None)
MCHome == (q1 :> s1) @@ (a1 :> s1) @@ (a2 :> s2)
=============================================================================
