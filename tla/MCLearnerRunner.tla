-------------------------- MODULE MCLearnerRunner --------------------------
(* The answer streams of MCStreams, packaged for the runners.           *)
EXTENDS LearnerRunner, MCStreams

PackagedFamily == AnswerFamily \cup LoopFamily
=============================================================================
