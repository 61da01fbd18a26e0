---- MODULE MCDriverWorker ----
EXTENDS DriverWorker
====
