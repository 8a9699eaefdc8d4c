------------------------ MODULE MCEvidencePipeline ------------------------
EXTENDS EvidencePipeline

\* The production value and a small cap as the spool's tests use.
NoCapOrTwo == {0, 2}

\* No stream of another channel, or one on every worker thread.
SomeBusy == {0, 2}

===========================================================================
