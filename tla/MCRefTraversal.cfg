CONSTANTS
  MaxBlocks <- MCMaxBlocks
  MaxBlockLen <- MCMaxBlockLen
SPECIFICATION Spec
INVARIANT TypeOK InstanceFieldsOnce ReferentPolicy
PROPERTY ReferentAfterVerdict
