----------------------------- MODULE MapLayers -----------------------------
(***************************************************************************)
(* What the map shows of a dataset the agent made: create_gis_layer of     *)
(* agent_manager/agents/tools.py inserts the dataset, its features and its *)
(* layer; the layer keeps a style that Layer.save chose once; the tile     *)
(* views draw the data in the encoding the metadata calls for, which the   *)
(* conversion (web_gis_app/workflows/cog_workflow.py) writes later.        *)
(*                                                                         *)
(* Every statement commits by itself, and any of them may raise or be the  *)
(* last one of its process.  The user adds a layer of the same dataset,    *)
(* changes it and deletes it at any moment; features the user draws or     *)
(* removes are left out.                                                   *)
(***************************************************************************)
EXTENDS Naturals

CONSTANTS
  AgentFiles,  \* [type, ext, items, bands]: what the code of the agent wrote
  Owners       \* who adds a layer: the agent and the user

\* create_gis_layer: what has the extension of a geojson is a vector dataset.
ASSUME MapAssumption ==
  /\ "agent" \in Owners
  /\ \A f \in AgentFiles : f.bands \in Nat /\ (f.ext = "geojson" => f.type = "vector")

VARIABLES
  agentFile,  \* the file the layer is made of
  source,     \* the Dataset row
  stored,     \* its object is in the storage
  drawn,      \* its rows in the feature table
  tiles,      \* its TileSet: "none" or "ready"
  metadata,   \* raster_kind and band_count of the row; 0 is a missing count
  layer,      \* the layer of each owner
  making      \* where create_gis_layer is

mapVars == <<agentFile, source, stored, drawn, tiles, metadata, layer, making>>

-----------------------------------------------------------------------------
NoMetadata == [kind |-> "unknown", count |-> 0]
NoLayer == [at |-> "none", style |-> "none", known |-> FALSE]

MapInit ==
  /\ agentFile \in AgentFiles
  /\ source = "absent" /\ stored = FALSE /\ drawn = 0 /\ tiles = "none"
  /\ metadata = NoMetadata
  /\ layer = [o \in Owners |-> NoLayer]
  /\ making = "fetched"

\* get_raster_kind
KindOf(count) == CASE count = 1 -> "elevation"
                   [] count \in {3, 4} -> "ortho"
                   [] OTHER -> "raster"

\* Layer._get_default_style.
DefaultStyle ==
  IF agentFile.type = "vector" THEN "features"
  ELSE IF metadata.kind = "elevation" THEN "hillshade" ELSE "raster"

\* A layer whose style is chosen from the metadata as it is.
Styled(label) == [at |-> label, style |-> DefaultStyle,
                  known |-> metadata # NoMetadata]

-----------------------------------------------------------------------------
(* _create_dataset_and_layer                                               *)

MakingTo(label) == making' = label

\* Text that is not JSON is refused before anything is made.
InsertNode ==
  /\ making = "fetched"
  /\ MakingTo(IF agentFile.ext = "geojson" /\ agentFile.items = "broken"
              THEN "refused" ELSE "dataset")
  /\ UNCHANGED <<agentFile, source, stored, drawn, tiles, metadata, layer>>

InsertDataset ==
  /\ making = "dataset"
  /\ source' = "pending"
  /\ MakingTo("upload")
  /\ UNCHANGED <<agentFile, stored, drawn, tiles, metadata, layer>>

PutFile ==
  /\ making = "upload"
  /\ stored' = TRUE
  /\ MakingTo("uploaded")
  /\ UNCHANGED <<agentFile, source, drawn, tiles, metadata, layer>>

\* The signal sends the conversion message of a raster (TileUpload); what it
\* raises comes after the save.
MarkUploaded ==
  /\ making = "uploaded"
  /\ source' = IF source = "deleted" THEN source ELSE "uploaded"
  /\ \/ source # "deleted" /\ MakingTo("features")
     \/ MakingTo("raised")
  /\ UNCHANGED <<agentFile, stored, drawn, tiles, metadata, layer>>

\* Mutant: the layer is announced and its features are left for later.
InsertFeaturesLate ==
  /\ making = "features"
  /\ MakingTo("layer")
  /\ UNCHANGED <<agentFile, source, stored, drawn, tiles, metadata, layer>>

\* One bulk_create of a geojson that has features with a geometry; one that is
\* not valid raises, and a row that is gone refuses its features.
InsertDrawn ==
  /\ making = "features"
  /\ LET some == agentFile.ext = "geojson" /\ agentFile.items = "some"
     IN IF agentFile.items = "invalid" \/ (some /\ source = "deleted")
        THEN MakingTo("raised") /\ drawn' = drawn
        ELSE MakingTo("layer") /\ drawn' = IF some THEN 1 ELSE drawn
  /\ UNCHANGED <<agentFile, source, stored, tiles, metadata, layer>>

\* Layer.save: the style and full_clean, which raises when the source is gone
\* or the name is blank.  The dataset in memory has no metadata yet.
PrepareLayer ==
  /\ making = "layer"
  /\ \/ /\ source # "deleted"
        /\ layer' = [layer EXCEPT !["agent"] =
             [at |-> "prepared", known |-> FALSE,
              style |-> IF agentFile.type = "vector" THEN "features" ELSE "raster"]]
        /\ MakingTo("insert")
     \/ MakingTo("raised") /\ layer' = layer
  /\ UNCHANGED <<agentFile, source, stored, drawn, tiles, metadata>>

\* A foreign key to a row that is gone is refused.
InsertLayer(o) ==
  /\ layer[o].at = "prepared"
  /\ layer' = IF source = "deleted" THEN [layer EXCEPT ![o] = NoLayer]
              ELSE [layer EXCEPT ![o].at = "shown"]
  /\ making' = IF o # "agent" THEN making
               ELSE IF source = "deleted" THEN "raised" ELSE "notify"
  /\ UNCHANGED <<agentFile, source, stored, drawn, tiles, metadata>>

\* A notification that raises makes the tool fail after the layer was made.
NotifyLayer ==
  /\ making = "notify"
  /\ MakingTo("visible") \/ MakingTo("raised")
  /\ UNCHANGED <<agentFile, source, stored, drawn, tiles, metadata, layer>>

LoseMaking ==
  /\ making \in {"dataset", "upload", "uploaded", "features", "layer", "insert",
                 "notify"}
  /\ MakingTo("raised")
  /\ layer' = [layer EXCEPT !["agent"] = IF @.at = "prepared" THEN NoLayer ELSE @]
  /\ UNCHANGED <<agentFile, source, stored, drawn, tiles, metadata>>

-----------------------------------------------------------------------------
(* UpdateTileSet of the conversion: the tileset, then the metadata.        *)

PublishTiles ==
  /\ agentFile.type = "raster" /\ source = "uploaded" /\ tiles = "none"
  /\ tiles' = "ready"
  /\ UNCHANGED <<agentFile, source, stored, drawn, metadata, layer, making>>

WriteMetadata ==
  /\ source = "uploaded" /\ tiles = "ready" /\ metadata = NoMetadata
  /\ metadata' = [kind |-> KindOf(agentFile.bands), count |-> agentFile.bands]
  /\ UNCHANGED <<agentFile, source, stored, drawn, tiles, layer, making>>

-----------------------------------------------------------------------------
(* LayerViewSet and the deletion of the dataset                            *)

\* POST: any dataset that is there may be the source.
PostLayer ==
  /\ layer["user"] = NoLayer /\ source \in {"pending", "uploaded"}
  /\ layer' = [layer EXCEPT !["user"] = Styled("prepared")]
  /\ UNCHANGED <<agentFile, source, stored, drawn, tiles, metadata, making>>

\* A PATCH of the source keeps the style that was chosen for another dataset.
PointLayerHere ==
  /\ layer["user"] = NoLayer /\ source \in {"pending", "uploaded"}
  /\ \E s \in {"features", "hillshade", "raster"} :
       layer' = [layer EXCEPT !["user"] = [at |-> "shown", style |-> s, known |-> FALSE]]
  /\ UNCHANGED <<agentFile, source, stored, drawn, tiles, metadata, making>>

\* PATCH of the style, read and saved in one step; an empty one is chosen anew.
RestyleLayer(o) ==
  /\ layer[o].at = "shown"
  /\ \/ layer' = [layer EXCEPT ![o] = Styled("shown")]
     \/ layer' = [layer EXCEPT ![o].style = "custom"]
  /\ UNCHANGED <<agentFile, source, stored, drawn, tiles, metadata, making>>

DeleteLayer(o) ==
  /\ layer[o].at = "shown"
  /\ layer' = [layer EXCEPT ![o].at = "deleted"]
  /\ UNCHANGED <<agentFile, source, stored, drawn, tiles, metadata, making>>

\* DatasetNodeViewSet.destroy: features, tileset and layers go with the row; the
\* object does when the row has its key.
DeleteSource ==
  /\ source \in {"pending", "uploaded"}
  /\ source' = "deleted" /\ drawn' = 0 /\ tiles' = "none"
  /\ stored' = (stored /\ source = "pending")
  /\ layer' = [o \in Owners |-> IF layer[o].at = "shown"
                                THEN [layer[o] EXCEPT !.at = "deleted"]
                                ELSE layer[o]]
  /\ UNCHANGED <<agentFile, metadata, making>>

-----------------------------------------------------------------------------
MapNext ==
  \/ InsertNode \/ InsertDataset \/ PutFile \/ MarkUploaded \/ InsertDrawn
  \/ PrepareLayer \/ NotifyLayer \/ LoseMaking
  \/ PublishTiles \/ WriteMetadata \/ PostLayer \/ PointLayerHere
  \/ DeleteSource
  \/ \E o \in Owners : InsertLayer(o) \/ RestyleLayer(o) \/ DeleteLayer(o)

MapSpec == MapInit /\ [][MapNext]_mapVars

-----------------------------------------------------------------------------
\* DatasetTileView: whether a tile is Terrain-RGB, by the request, by the
\* metadata, or by the bands of the file.
TerrainTile(override) ==
  IF override # "none" THEN override = "terrain"
  ELSE IF metadata.kind \in {"elevation", "ortho"} THEN metadata.kind = "elevation"
  ELSE IF metadata.count # 0 THEN metadata.count = 1
  ELSE agentFile.bands = 1

\* VectorTileView draws what the feature table has.
VectorTile == IF agentFile.type = "vector" THEN drawn ELSE 0

\* A layer of the agent has its data behind it: the object of the dataset and
\* the features of its geojson, whatever failed on the way.  And a style that
\* was chosen when the metadata was there is the one the tiles are encoded for,
\* also when the metadata was written in two statements by a conversion.
LayerShowsItsData ==
  /\ layer["agent"].at = "shown" =>
       /\ source = "uploaded" /\ stored
       /\ agentFile.ext = "geojson" /\ agentFile.items = "some" => VectorTile > 0
  /\ \A o \in Owners :
       /\ layer[o].at = "shown" /\ layer[o].known
       /\ layer[o].style \in {"hillshade", "raster"}
       => (layer[o].style = "hillshade") = TerrainTile("none")
=============================================================================
