SPECIFICATION BodiesSpec
CONSTANTS
  Keys = {"allocate", "initialize", "f"}
  Values = {"m1", "alloc_instance", "init_instance"}
  Capa = 2
  Slot <- MCSlot
  ClassNames = {"K"}
  Needs = {{"f"}}
  MaxMade = 5
  MaxTraits = 1
  MaxBodies = 1
  MaxUses = 1
INVARIANTS TypedMaps DescendantsUnderstand CheckedTraitsAreMet NewPassesUnwindsOn
PROPERTIES ImplementsPromise
