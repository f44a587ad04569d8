---------------------------- MODULE MCServices ----------------------------
(* The services that share nothing but the bucket and Redis, checked side by
   side: part says which module the behaviour is about, and the others stand
   still at one initial state, so that the states add up.

   Map: a geojson of each kind, a GeoPackage, and rasters of one to five bands.
   Search: three items with every choice of keys; a grain of 3 rounds the key 1
   down and 2 and 4 to what lies between them. *)

EXTENDS DocumentIngest, SandboxJob, MapLayers, SearchPaging, NearbyShops,
        TodoCache, Cart, HistoryCompaction, EventStream, BulkUpload

VARIABLE part

MCAgentFiles ==
  [type : {"vector"}, ext : {"geojson"}, items : {"some", "none", "invalid", "broken"},
   bands : {0}]
  \cup [type : {"vector"}, ext : {"gpkg"}, items : {"some"}, bands : {0}]
  \cup [type : {"raster"}, ext : {"tif"}, items : {"none"}, bands : 1 .. 5]

MCSortKeys == {0, 1, 2, 4, NullKey}

MCInit ==
  /\ part \in {"document", "box", "map", "search", "nearby", "todo", "cart", "chat",
              "events", "import"}
  /\ DocInit /\ BoxInit /\ NearbyInit /\ TodoInit /\ HistoryInit /\ EventsInit
  /\ MapInit /\ (part # "map" => agentFile.ext = "gpkg")
  /\ SearchInit
  /\ part # "search" => /\ sort = "recent" /\ limit = 0
                        /\ \A i \in ItemIds : items[i].key = 0
  /\ CartInit /\ (part # "cart" => \A r \in Adds : wanted[r] = <<>>)
  /\ BulkInit /\ (part # "import" => file = <<>>)

MCNext ==
  \/ /\ part = "document" /\ DocNext
     /\ UNCHANGED <<part, boxVars, mapVars, searchVars, nearbyVars, todoVars,
                    cartVars, chatVars, eventVars, uploadVars>>
  \/ /\ part = "box" /\ BoxNext
     /\ UNCHANGED <<part, docVars, mapVars, searchVars, nearbyVars, todoVars,
                    cartVars, chatVars, eventVars, uploadVars>>
  \/ /\ part = "map" /\ MapNext
     /\ UNCHANGED <<part, docVars, boxVars, searchVars, nearbyVars, todoVars,
                    cartVars, chatVars, eventVars, uploadVars>>
  \/ /\ part = "search" /\ SearchNext
     /\ UNCHANGED <<part, docVars, boxVars, mapVars, nearbyVars, todoVars, cartVars,
                    chatVars, eventVars, uploadVars>>
  \/ /\ part = "nearby" /\ NearbyNext
     /\ UNCHANGED <<part, docVars, boxVars, mapVars, searchVars, todoVars, cartVars,
                    chatVars, eventVars, uploadVars>>
  \/ /\ part = "todo" /\ TodoNext
     /\ UNCHANGED <<part, docVars, boxVars, mapVars, searchVars, nearbyVars, cartVars,
                    chatVars, eventVars, uploadVars>>
  \/ /\ part = "cart" /\ CartNext
     /\ UNCHANGED <<part, docVars, boxVars, mapVars, searchVars, nearbyVars, todoVars,
                    chatVars, eventVars, uploadVars>>
  \/ /\ part = "chat" /\ HistoryNext
     /\ UNCHANGED <<part, docVars, boxVars, mapVars, searchVars, nearbyVars, todoVars,
                    cartVars, eventVars, uploadVars>>
  \/ /\ part = "events" /\ EventsNext
     /\ UNCHANGED <<part, docVars, boxVars, mapVars, searchVars, nearbyVars, todoVars,
                    cartVars, chatVars, uploadVars>>
  \/ /\ part = "import" /\ BulkNext
     /\ UNCHANGED <<part, docVars, boxVars, mapVars, searchVars, nearbyVars, todoVars,
                    cartVars, chatVars, eventVars>>

MCVars == <<part, docVars, boxVars, mapVars, searchVars, nearbyVars, todoVars, cartVars,
            chatVars, eventVars, uploadVars>>

MCSpec == MCInit /\ [][MCNext]_MCVars
=============================================================================
