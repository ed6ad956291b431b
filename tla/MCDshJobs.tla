----- MODULE MCDshJobs -----
EXTENDS DshJobs
====
