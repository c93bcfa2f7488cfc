------------------------------ MODULE Registry ------------------------------
(***************************************************************************)
(* src/client_manager.c over src/hash.c: clients_map as the hash table it  *)
(* is.  ClientManager treats the map as two functions, fd_key and          *)
(* host_key; here each call that changes it also does to the table what    *)
(* the code does, so that the two can be compared.  The key "fd:%d" of a   *)
(* descriptor stands as the descriptor itself.                             *)
(***************************************************************************)
EXTENDS ClientManager, HashTable

ASSUME Keys == Key = Fd \cup Hostname /\ Fd \cap Hostname = {}

VARIABLE clients_map

regVars == <<cmVars, clients_map>>

regInit == client_manager_init /\ clients_map = create_table

map_client_add(t) ==
  /\ client_add(t)
  /\ clients_map' = set(clients_map, heap[ptr[t]].fd, ptr[t])

map_client_set_hostname(t, f, h) ==
  /\ client_set_hostname(t, f, h)
  /\ clients_map' = IF get(clients_map, f) = NULL THEN clients_map
                    ELSE set(clients_map, h, get(clients_map, f))

\* The hostname key goes only if, the descriptor key gone, it leads to this client.
del_client(table, f, p) ==
  LET without == del(table, f)
      h == heap[p].hostname
  IN  IF h # NULL /\ get(without, h) = p THEN del(without, h) ELSE without

map_client_remove(t, f) ==
  /\ client_remove(t, f)
  /\ clients_map' = IF get(clients_map, f) = NULL THEN clients_map
                    ELSE del_client(clients_map, f, get(clients_map, f))

\* All other functions at most read the map.
regNext ==
  \/ \E t \in Thread :
       \/ map_client_add(t)
       \/ \E f \in Fd : map_client_remove(t, f)
       \/ \E f \in Fd, h \in Hostname : map_client_set_hostname(t, f, h)
  \/ cmReads /\ UNCHANGED clients_map

regSpec == regInit /\ [][regNext]_regVars

----------------------------------------------------------------------------

\* What the registry means by a key.
Registered(k) == IF k \in Fd THEN fd_key[k] ELSE host_key[k]

\* The chains of hash.c are the map the registry needs, also when keys collide: get
\* finds for every key what was last set and not deleted since, each key has at most
\* one entry, and the loops over all buckets (sweep_inactive, print_status) meet
\* exactly the registered clients.
TableAgrees ==
  /\ \A k \in Key : get(clients_map, k) = Registered(k)
  /\ \A s \in Slot : \A i \in DOMAIN clients_map[s] :
       /\ clients_map[s][i].key \in Key
       /\ hash[clients_map[s][i].key] = s
       /\ clients_map[s][i].value = Registered(clients_map[s][i].key)
       /\ \A j \in DOMAIN clients_map[s] : clients_map[s][i].key = clients_map[s][j].key => i = j
=============================================================================
