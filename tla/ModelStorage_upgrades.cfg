SPECIFICATION Spec
CONSTANTS
    e1 = e1
    e2 = e2
    Entities <- MCEntities
    MaxBits = 5
    Chunk = 2
    MaxItems = 2
    Unset = Unset
    Width <- MCWidth
    Versions <- MCVersions
    Samples <- MCSamples
    Texts <- MCTexts
 
 
INVARIANT PackRoundTrip
