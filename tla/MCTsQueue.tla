----------------------------- MODULE MCTsQueue -----------------------------
(* A small instance of TsQueue for TLC: the threads AdMQ has, one writer (the *)
(* epoll thread) and several readers (the workers).                           *)
EXTENDS TsQueue
=============================================================================
