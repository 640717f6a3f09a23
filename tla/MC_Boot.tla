------------------------------ MODULE MC_Boot ------------------------------
(***************************************************************************)
(* A machine of four cores with seven NICs, and the configuration files     *)
(* that between them take every path of the start-up.                      *)
(***************************************************************************)
EXTENDS Boot

\* d1, d2: full redirection tables, d2 with fewer TX than RX queues; d3: a smaller one, and fewer queues than cores;
\* d4: a virtual function; d5: no driver; d6: not in sysfs; d7: registers that cannot be mapped.
MCDevice ==
    [d1 |-> [info |-> TRUE, bar |-> "rw", drv |-> "i40e", maxrx |-> 3, maxtx |-> 3, reta |-> 2],
     d2 |-> [info |-> TRUE, bar |-> "rw", drv |-> "i40e", maxrx |-> 4, maxtx |-> 2, reta |-> 2],
     d3 |-> [info |-> TRUE, bar |-> "rw", drv |-> "ixgbe", maxrx |-> 2, maxtx |-> 2, reta |-> 1],
     d4 |-> [info |-> TRUE, bar |-> "rw", drv |-> "ixgbevf", maxrx |-> 1, maxtx |-> 1, reta |-> 1],
     d5 |-> [info |-> TRUE, bar |-> "rw", drv |-> "none", maxrx |-> 1, maxtx |-> 1, reta |-> 1],
     d6 |-> [info |-> FALSE, bar |-> "rw", drv |-> "i40e", maxrx |-> 1, maxtx |-> 1, reta |-> 1],
     d7 |-> [info |-> TRUE, bar |-> "ro", drv |-> "i40e", maxrx |-> 1, maxtx |-> 1, reta |-> 1]]

File(ports, devices, cpus) ==
    [bad |-> "none", ports |-> ports, devices |-> devices, cpus |-> cpus]

MCConfs ==
    { File(<<80>>, <<"d1", "d2", "d1">>, <<3, 1, 3, 0>>),
      File(<<80, 81, 82>>, <<"d1", "d3">>, <<2, 1, 2>>),
      File(<<80>>, <<"d3", "d1">>, <<0>>),
      File(<<80>>, <<"d3">>, <<0, 1, 2>>),
      File(<<80>>, <<"d4">>, <<>>),
      File(<<80>>, <<"d4">>, <<1, 2>>),
      File(<<80>>, <<"d5">>, <<1>>),
      File(<<80>>, <<"d6">>, <<1>>),
      File(<<80>>, <<"d7">>, <<1>>),
      File(<<80>>, <<>>, <<1>>),
      File(<<80>>, <<"d1", "d2", "d3">>, <<1>>),
      File(<<80>>, <<"d1", "d9">>, <<1>>),
      File(<<80>>, <<"d1">>, <<0, 1, 2, 3>>),
      File(<<80>>, <<"d1">>, <<4>>),
      File(<<0>>, <<"d1">>, <<1>>),
      [File(<<80>>, <<"d1">>, <<1>>) EXCEPT !.bad = "gateway_addr"],
      [File(<<80>>, <<"d1">>, <<1>>) EXCEPT !.bad = "arguments"] }
=============================================================================
